---- MODULE Spec2Model ----
(***************************************************************************)
(* Model of the nmap-scanner orchestration: the control surface            *)
(* (src/server.py) spawns scanner processes; advanced_scan.py runs the     *)
(* two-phase scan under /tmp/advanced_scan.lock; scan.py runs the basic    *)
(* scan under /tmp/nmap_scan.lock; config_manager.py keeps the network     *)
(* registry, one in-memory copy per process and one stored file.           *)
(***************************************************************************)
EXTENDS Naturals, Sequences, FiniteSets, TLC

\* ------------------------------------------------------------- bounds
\* Number of distinct hosts a discovery scan can report.
MaxHosts == 2
\* Largest output.max_history_files a run is configured with.
MaxHistory == 2
\* Number of runs that reach update_scan_history.
MaxAppends == 3
\* Number of calls made on one ConfigManager after it was built.
MaxCalls == 3
\* Length, in symbols, of a free text (a service name, a product).
MaxText == 2

\* Scanner processes, by pid: a lock holder and a contender, or a scan of
\* each kind.
Procs == {1, 2}
Hosts == 1..MaxHosts

\* ------------------------------------------------------------- values
None == "None"
Names == {"lan"}
\* CIDR strings a scan can be started with: a valid one and one that
\* ipaddress.ip_network rejects.
CidrArgs == {"10.0.0.0/24", "10.0.0.0/33"}
\* CIDR strings a network can be added with: also one with host bits set.
AddCidrs == CidrArgs \cup {"10.0.0.5/24"}

BasicLockPath == "/tmp/nmap_scan.lock"
AdvancedLockPath == "/tmp/advanced_scan.lock"
LockPaths == {BasicLockPath, AdvancedLockPath}

VARIABLES
    proc,       \* per scanner process: its code position and fields
    store,      \* the registry file (scan_config.json) as last written
    srv_config, \* the control surface's in-memory ConfigManager.config
    lockfile,   \* content of each lock file
    results,    \* scan_ids that have an advanced_scan_<id>_<ts>.json
    history,    \* scan_history.json: sequence of scan_ids
    sink,       \* scan_ids whose points reached the time-series sink
    history_file, \* scan_history.json as a reader of the file finds it
    max_history,  \* output.max_history_files as the run has it configured
    appender,     \* the run that is inside update_scan_history
    reader,       \* what GET /scan-history last answered
    appended,     \* scan_ids whose append was written back, in order
    cm,           \* a ConfigManager instance: how it was built, its config
    ret,          \* the last call made on cm: arguments and return value
    srv_save,     \* the control surface's save_config between open and close
    answer,       \* the control surface's last response, where one is kept
    input,        \* a document or summary handed to a parser or an encoder
    output        \* what the parser or encoder returned for it

\* The history ledger on its own, and one ConfigManager on its own.
ledger_vars == <<history_file, max_history, appender, reader, appended>>
manager_vars == <<cm, ret, srv_save>>
service_vars == <<answer>>
\* A parser or an encoder on its own: its argument and its return value.
codec_vars == <<input, output>>

vars == <<proc, store, srv_config, lockfile, results, history, sink,
          ledger_vars, manager_vars, service_vars, codec_vars>>

\* ------------------------------------------------------------- files
\* A file on disk as a reader finds it: not there, a JSON document with its
\* value, bytes that json.load rejects, or a file being rewritten (empty
\* right after open(path, "w"), partly written once a buffer was flushed).
NoFile == [state |-> "absent", value |-> <<>>]
json_file(value) == [state |-> "json", value |-> value]
GarbageFile == [state |-> "garbage", value |-> <<>>]
EmptyFile == [state |-> "empty", value |-> <<>>]
PartialFile == [state |-> "partial", value |-> <<>>]

\* json.load on an open file: <<parsed, value>>.
json_load(file) ==
    IF file.state = "json" THEN <<TRUE, file.value>> ELSE <<FALSE, <<>>>>

\* os.path.exists(path)
exists(file) == file.state # "absent"

\* ------------------------------------------------------------- registry
\* The texts a CIDR argument is drawn from, as ipaddress reads them: whether
\* the part before the slash is an IPv4 address, its last octet (the first
\* three are 10.0.0), whether a prefix length is written, and which (a
\* bare address is taken as a /32 network).
CidrTexts ==
    {"10.0.0.0/24", "10.0.0.5/24", "10.0.0.5/30", "10.0.0.5/32", "10.0.0.5",
     "10.0.0.0/33", "not-a-cidr"}

written(cidr) ==
    CASE cidr = "10.0.0.0/24" ->
            [address |-> TRUE, host |-> 0, slash |-> TRUE, prefixlen |-> 24]
      [] cidr = "10.0.0.5/24" ->
            [address |-> TRUE, host |-> 5, slash |-> TRUE, prefixlen |-> 24]
      [] cidr = "10.0.0.4/30" ->
            [address |-> TRUE, host |-> 4, slash |-> TRUE, prefixlen |-> 30]
      [] cidr = "10.0.0.5/30" ->
            [address |-> TRUE, host |-> 5, slash |-> TRUE, prefixlen |-> 30]
      [] cidr = "10.0.0.5/32" ->
            [address |-> TRUE, host |-> 5, slash |-> TRUE, prefixlen |-> 32]
      [] cidr = "10.0.0.5" ->
            [address |-> TRUE, host |-> 5, slash |-> FALSE, prefixlen |-> 32]
      [] cidr = "10.0.0.0/33" ->
            [address |-> TRUE, host |-> 0, slash |-> TRUE, prefixlen |-> 33]
      [] OTHER ->
            [address |-> FALSE, host |-> 0, slash |-> FALSE, prefixlen |-> 0]

\* str(network): "10.0.0.<host>/<prefixlen>".
str_network(host, prefixlen) ==
    CASE host = 0 /\ prefixlen = 24 -> "10.0.0.0/24"
      [] host = 4 /\ prefixlen = 30 -> "10.0.0.4/30"
      [] host = 5 /\ prefixlen = 32 -> "10.0.0.5/32"

\* ipaddress.ip_network(cidr, strict=False): the canonical network, or
\* "ValueError".
\* Variant: the text is validated but stored as it was written, host bits
\* and all.
ip_network_as_written(cidr) ==
    LET w == written(cidr) IN
    IF ~w.address \/ w.prefixlen > 32 THEN "ValueError" ELSE cidr

ip_network(cidr) ==
    LET w == written(cidr) IN
    IF ~w.address \/ w.prefixlen > 32 THEN "ValueError"
    ELSE str_network(w.host - (w.host % (2 ^ (32 - w.prefixlen))), w.prefixlen)

validate_network_cidr(cidr) == ip_network(cidr) # "ValueError"

create_default_config == [networks |-> <<>>]

\* Whether the document has the "networks" section: self.config["networks"]
\* raises KeyError without it.
has_sections(config) == "networks" \in DOMAIN config

\* name in self.config["networks"]
has_network(config, name) ==
    has_sections(config) /\ name \in DOMAIN config.networks

\* ConfigManager.get_network: the entry, or None.
get_network(config, name) ==
    IF has_network(config, name) THEN config.networks[name] ELSE None

\* ConfigManager.load_config on the registry file; save_ok tells whether
\* save_config can write.  A document that parses is taken as it is.  A
\* missing or unparseable file leads to create_default_config, which saves;
\* when that save raises, the except clause calls create_default_config
\* once more, and the second save's exception leaves load_config.
load_config(file, save_ok) ==
    IF exists(file) /\ json_load(file)[1]
    THEN [config |-> json_load(file)[2], store |-> file, raised |-> FALSE,
          found |-> "document"]
    ELSE [config |-> create_default_config,
          store |-> IF save_ok THEN json_file(create_default_config) ELSE file,
          raised |-> ~save_ok,
          found |-> file.state]

\* The entry add_network stores for a valid CIDR.
new_entry(cidr) ==
    [cidr |-> ip_network(cidr), last_scan |-> "null", scan_count |-> 0,
     enabled |-> TRUE]

\* ConfigManager.add_network: <<config after the call, return value>>.
\* A ValueError from ip_network returns False before anything is stored.
\* Variant: the entry is stored before the CIDR is looked at.
add_network_unvalidated(config, name, cidr) ==
    IF ~has_sections(config)
    THEN <<config, FALSE>>
    ELSE <<[config EXCEPT !.networks =
                [n \in DOMAIN config.networks \cup {name} |->
                    IF n = name
                    THEN [cidr |-> cidr, last_scan |-> "null",
                          scan_count |-> 0, enabled |-> TRUE]
                    ELSE config.networks[n]]],
           ip_network(cidr) # "ValueError">>

\* Variant: a name already in the registry keeps its scan_count.
add_network_keeps_count(config, name, cidr) ==
    IF ip_network(cidr) = "ValueError" \/ ~has_sections(config)
    THEN <<config, FALSE>>
    ELSE <<[config EXCEPT !.networks =
                [n \in DOMAIN config.networks \cup {name} |->
                    IF n = name
                    THEN [new_entry(cidr) EXCEPT !.scan_count =
                              IF has_network(config, n)
                              THEN config.networks[n].scan_count ELSE 0]
                    ELSE config.networks[n]]],
           TRUE>>

add_network(config, name, cidr) ==
    IF ip_network(cidr) = "ValueError" \/ ~has_sections(config)
    THEN <<config, FALSE>>
    ELSE <<[config EXCEPT !.networks =
                [n \in DOMAIN config.networks \cup {name} |->
                    IF n = name THEN new_entry(cidr) ELSE config.networks[n]]],
           TRUE>>

\* ConfigManager.remove_network
remove_network(config, name) ==
    IF ~has_network(config, name)
    THEN <<config, FALSE>>
    ELSE <<[config EXCEPT !.networks =
                [n \in DOMAIN config.networks \ {name} |-> config.networks[n]]],
           TRUE>>

\* ConfigManager.enable_network
enable_network(config, name, enabled) ==
    IF ~has_network(config, name)
    THEN <<config, FALSE>>
    ELSE <<[config EXCEPT !.networks[name].enabled = enabled], TRUE>>

\* ConfigManager.update_network_scan_info(name, True): <<config after the
\* call, whether save_config was called>>.  An absent name changes nothing
\* and writes nothing.
\* Variant: an absent name gets an entry of its own to count in.
update_network_scan_info_upsert(config, name) ==
    IF ~has_sections(config)
    THEN <<config, FALSE>>
    ELSE <<[config EXCEPT !.networks =
                [n \in DOMAIN config.networks \cup {name} |->
                    IF n = name
                    THEN [cidr |-> IF has_network(config, n)
                                   THEN config.networks[n].cidr ELSE None,
                          enabled |-> IF has_network(config, n)
                                      THEN config.networks[n].enabled ELSE TRUE,
                          last_scan |-> "set",
                          scan_count |-> IF has_network(config, n)
                                         THEN config.networks[n].scan_count + 1
                                         ELSE 1]
                    ELSE config.networks[n]]],
           TRUE>>

\* Variant: the scan is counted twice.
update_network_scan_info_twice(config, name) ==
    IF has_network(config, name)
    THEN <<[config EXCEPT !.networks[name].last_scan = "set",
                          !.networks[name].scan_count = @ + 2],
           TRUE>>
    ELSE <<config, FALSE>>

update_network_scan_info(config, name) ==
    IF has_network(config, name)
    THEN <<[config EXCEPT !.networks[name].last_scan = "set",
                          !.networks[name].scan_count = @ + 1],
           TRUE>>
    ELSE <<config, FALSE>>

\* ConfigManager.update_config_section: <<config after the call, whether
\* the section exists>>.  data is merged into the section by dict.update.
update_config_section(config, section, data) ==
    IF section \notin DOMAIN config
    THEN <<config, FALSE>>
    ELSE <<[config EXCEPT ![section] =
                [n \in DOMAIN config[section] \cup DOMAIN data |->
                    IF n \in DOMAIN data THEN data[n] ELSE config[section][n]]],
           TRUE>>

\* ConfigManager.import_config: <<config after the call, whether the text
\* was accepted>>.  The text must parse and have the "networks" section
\* (the other required sections come and go with it here).
import_config(config, text) ==
    IF ~json_load(text)[1] \/ ~has_sections(json_load(text)[2])
    THEN <<config, FALSE>>
    ELSE <<json_load(text)[2], TRUE>>

\* AdvancedScanner.validate_target: a given CIDR is checked first and alone;
\* the name is looked up only when no CIDR was given.
validate_target(config, network_name, network_cidr) ==
    IF network_cidr # None
    THEN validate_network_cidr(network_cidr)
    ELSE IF network_name # None
         THEN /\ has_network(config, network_name)
              /\ config.networks[network_name].enabled
         ELSE FALSE

\* network_cidr after a successful validate_target.
resolved_cidr(config, network_name, network_cidr) ==
    IF network_cidr # None THEN network_cidr
    ELSE config.networks[network_name].cidr

\* ------------------------------------------------------------- locks
\* The lock file a process kind uses: scan.py LOCKFILE, get_lock's default.
lock_path(kind) == IF kind = "basic" THEN BasicLockPath ELSE AdvancedLockPath

\* Variant: the lock is requested shared (LOCK_SH), which other holders of
\* the same kind never block.
flock_nb_shared(p, path) == TRUE

\* fcntl.flock(fd, LOCK_EX | LOCK_NB) by process p on path: it succeeds iff
\* no other open file description holds a lock on the same file.
flock_nb(p, path) ==
    \A q \in Procs \ {p} :
        ~(proc[q].lock_fd = "locked" /\ lock_path(proc[q].kind) = path)

\* Variant: release_lock does nothing.
release_lock_skipped(fd) == fd

\* release_lock(fd): LOCK_UN and close; the descriptor afterwards.
release_lock(fd) == "none"

\* open(lockfile, "w"): creates the file, or truncates the one that is there.
open_w(file) == [exists |-> TRUE, pid |-> 0, scan_id |-> 0]

\* fd.write(f"{os.getpid()}:{self.scan_id}") (scan.py writes the pid alone:
\* scan_id 0 stands for "no colon part").
lock_text(pid, scan_id) == [exists |-> TRUE, pid |-> pid, scan_id |-> scan_id]

\* ------------------------------------------------------------- processes
\* uuid4().hex[:8] of a run: distinct per process.
scan_id_of(p) == p

NoProcess ==
    [kind |-> "none", pc |-> "none", network_name |-> None,
     network_cidr |-> None, topology |-> FALSE,
     config |-> create_default_config, lock_fd |-> "none",
     phase1_results |-> <<>>, phase2_results |-> <<>>, idx |-> 0,
     ok_hosts |-> {}, scanned |-> <<>>, events |-> <<>>,
     outcome |-> "none", exit_code |-> 0]

\* Whether event e is in process p's record of what it did.
Has(p, e) == \E i \in DOMAIN proc[p].events : proc[p].events[i] = e

Ev(r, e) == Append(r.events, e)

\* The next process to start: pids are handed out in order.
NextPid == CHOOSE p \in Procs : proc[p].kind = "none" /\
                                \A q \in Procs : q < p => proc[q].kind # "none"
CanSpawn == \E p \in Procs : proc[p].kind = "none"

\* subprocess.Popen of a scanner script with its command line.
Popen(kind, name, cidr, topology) ==
    [proc EXCEPT ![NextPid] =
        [NoProcess EXCEPT !.kind = kind, !.pc = "spawned",
                          !.network_name = name, !.network_cidr = cidr,
                          !.topology = topology]]

\* The process's memory is gone once it has exited; its exit code stays.
Exited(r, code) ==
    [NoProcess EXCEPT !.kind = r.kind, !.pc = "exited", !.exit_code = code]

\* main() returning before a scanner was built: why is kept with the code.
EarlyExit(r, code, why) ==
    [NoProcess EXCEPT !.kind = r.kind, !.pc = "exited", !.exit_code = code,
                      !.events = <<why>>]

\* The registries the control surface can have built before the first scan:
\* no network, or "lan" added and then enabled or disabled.
InitialRegistries ==
    {create_default_config}
    \cup {enable_network(add_network(create_default_config, n, c)[1], n, e)[1] :
            n \in Names, c \in {"10.0.0.5/24"}, e \in BOOLEAN}

NoAppender ==
    [pc |-> "idle", scan_id |-> 0, found |-> "none", history |-> <<>>,
     outcome |-> "none"]
NoAnswer == [status |-> 0, saw |-> "none", history |-> <<>>]
NoManager == [state |-> "none", loaded |-> "none", config |-> <<>>]
NoCall == [seq |-> 0, op |-> "none"]
NoResponse == [route |-> "none", status |-> 0, locks |-> <<>>, aged |-> {}]

\* No history append, no history request and no registry call under way.
LedgerAside ==
    /\ history_file = NoFile
    /\ max_history = 1
    /\ appender = NoAppender
    /\ reader = NoAnswer
    /\ appended = <<>>

\* No document is being parsed and no summary encoded.
NoInput == [kind |-> "none"]
NoOutput == [kind |-> "none"]
CodecAside ==
    /\ input = NoInput
    /\ output = NoOutput

ManagerAside ==
    /\ cm = NoManager
    /\ ret = NoCall
    /\ srv_save = "none"
    /\ answer = NoResponse

Init ==
    /\ LedgerAside
    /\ ManagerAside
    /\ CodecAside
    /\ proc = [p \in Procs |-> NoProcess]
    /\ store \in {json_file(config) : config \in InitialRegistries}
    /\ srv_config = store.value
    /\ lockfile = [f \in LockPaths |-> [exists |-> FALSE, pid |-> 0, scan_id |-> 0]]
    /\ results = {}
    /\ history = <<>>
    /\ sink = {}

\* ------------------------------------------------------------- control surface
\* _handle_advanced_scan's checks on the request body: the target must be
\* named, a named network must be registered and enabled, and the CIDR
\* (the named network's, or the one given) must be valid.
handler_accepts(config, name, cidr) ==
    /\ name # None \/ cidr # None
    /\ name # None => /\ has_network(config, name)
                      /\ config.networks[name].enabled
    /\ LET c == IF name # None THEN config.networks[name].cidr ELSE cidr
       IN  c # None => validate_network_cidr(c)

\* The response to a POST that starts a scanner, as far as a specification
\* keeps it: Respond records its route and status code in answer, Silent
\* lets it go unrecorded.
Respond(route, status) ==
    answer' = [route |-> route, status |-> status, locks |-> <<>>, aged |-> {}]
Silent == UNCHANGED answer

\* _handle_advanced_scan's status code: 202 after Popen, 400 for any
\* exception raised before it.
advanced_scan_status(config, name, cidr) ==
    IF handler_accepts(config, name, cidr) THEN 202 ELSE 400

\* POST /advanced-scan: on acceptance the script is started with --network
\* or --cidr, and with --topology when include_topology is set (the default).
\* (The response is the caller's conjunct: Respond or Silent.)
HandleAdvancedScan(name, cidr, include_topology) ==
    /\ CanSpawn
    /\ IF handler_accepts(srv_config, name, cidr)
       THEN proc' = Popen("advanced", name,
                          IF name # None THEN None ELSE cidr, include_topology)
       ELSE UNCHANGED proc
    /\ UNCHANGED <<store, srv_config, lockfile, results, history, sink,
                   ledger_vars, manager_vars, codec_vars>>

\* POST /scan: scan.py is started unconditionally.
HandleScan ==
    /\ CanSpawn
    /\ proc' = Popen("basic", None, None, FALSE)
    /\ UNCHANGED <<store, srv_config, lockfile, results, history, sink,
                   ledger_vars, manager_vars, codec_vars>>

\* advanced_scan.py run from a shell: --network and --cidr in any combination.
CommandLine(name, cidr) ==
    /\ CanSpawn
    /\ proc' = Popen("advanced", name, cidr, FALSE)
    /\ UNCHANGED <<store, srv_config, lockfile, results, history, sink,
                   ledger_vars, manager_vars, service_vars, codec_vars>>

\* A registry operation of the control surface (it handles one request at
\* a time): the in-memory config changes and, on success, save_config opens
\* the registry file for writing, which empties it.
ServerRegistryOp(r) ==
    /\ srv_save = "none"
    /\ srv_config' = r[1]
    /\ IF r[2]
       THEN store' = EmptyFile /\ srv_save' = "open"
       ELSE UNCHANGED <<store, srv_save>>
    /\ UNCHANGED <<proc, lockfile, results, history, sink, ledger_vars,
                   cm, ret, service_vars, codec_vars>>

\* save_config, second half: json.dump writes self.config and the with
\* block closes the file.
ServerSaveClose ==
    /\ srv_save = "open"
    /\ store' = json_file(srv_config)
    /\ srv_save' = "none"
    /\ UNCHANGED <<proc, srv_config, lockfile, results, history, sink,
                   ledger_vars, cm, ret, service_vars, codec_vars>>

HandleAddNetwork(name, cidr) ==
    ServerRegistryOp(add_network(srv_config, name, cidr))

HandleRemoveNetwork(name) ==
    ServerRegistryOp(remove_network(srv_config, name))

HandleEnableNetwork(name, enabled) ==
    ServerRegistryOp(enable_network(srv_config, name, enabled))

\* ------------------------------------------------------------- advanced_scan.py
\* What nmap and the parser can hand back.
Phase1Outcomes == {"ok", "timeout", "exit", "error"}
Phase2Outcomes == {"ok", "empty", "timeout", "exit", "error"}
IoOutcomes == {"ok", "fail"}
PushOutcomes == {"ok", "unreachable", "auth", "server_error"}

\* Discovery results: hosts in document order, each once (dict keys).
Discoveries ==
    {s \in UNION {[1..n -> Hosts] : n \in 0..MaxHosts} :
        \A i, j \in DOMAIN s : i # j => s[i] # s[j]}

\* Variant: the lock is taken whatever validate_target said.
after_validate_ignored(valid) == "get_lock"

\* run_full_scan after validate_target: ValueError unless the target is valid.
after_validate(valid) == IF valid THEN "get_lock" ELSE "raised"

\* Variant: the run goes on although get_lock returned None.
after_get_lock_ignored(locked) == "update_info"

\* run_full_scan after get_lock: RuntimeError when it returned None.
after_get_lock(locked) == IF locked THEN "update_info" ELSE "raised"

\* Variant: a phase-1 timeout is logged and swallowed.
phase1_raises_not_timeout(outcome) == outcome \notin {"ok", "timeout"}

\* run_phase1 re-raises TimeoutExpired, CalledProcessError and anything else.
phase1_raises(outcome) == outcome # "ok"

\* Variant: the loop has no handler for TimeoutExpired.
phase2_step_timeout_escapes(outcome) ==
    CASE outcome = "ok" -> "store"
      [] outcome = "timeout" -> "raise"
      [] OTHER -> "skip"

\* Variant: an empty detail ends the loop with an exception.
phase2_step_empty_escapes(outcome) ==
    CASE outcome = "ok" -> "store"
      [] outcome = "empty" -> "raise"
      [] outcome \in {"timeout", "exit", "error"} -> "skip"

\* run_phase2's loop body: every exception is caught and the loop continues;
\* a parsed, non-empty detail is stored under the host's ip.
phase2_step(outcome) ==
    CASE outcome = "ok" -> "store"
      [] outcome = "empty" -> "skip"
      [] outcome \in {"timeout", "exit", "error"} -> "skip"

\* save_results logs and re-raises.
save_raises(outcome) == outcome # "ok"

\* Variant: update_scan_history re-raises like save_results does.
history_raises_on_failure(outcome) == outcome # "ok"

\* update_scan_history and send_to_influxdb catch every exception.
history_raises(outcome) == FALSE
influx_raises(outcome) == FALSE

\* The exception a failed step raises out of run_full_scan.
exception_of(outcome) ==
    CASE outcome = "timeout" -> "TimeoutExpired"
      [] outcome = "exit" -> "CalledProcessError"
      [] OTHER -> "Exception"

\* run_full_scan is over: nothing reads the scanner's fields any more, only
\* how it ended, what it did and what became of its lock descriptor.
Ended(r, pc, outcome, lock_fd) ==
    [NoProcess EXCEPT !.kind = r.kind, !.pc = pc, !.outcome = outcome,
                      !.events = r.events, !.lock_fd = lock_fd]

\* An exception raised before the try block: nothing to release.
RaiseEarly(r, exc) == Ended(r, "raised", exc, r.lock_fd)

\* An exception leaving run_full_scan's try block: the finally clause
\* releases the lock.
Raise(r, exc) == Ended(r, "raised", exc, release_lock(r.lock_fd))

IsAdv(p, pc) == proc[p].kind = "advanced" /\ proc[p].pc = pc

\* Module import (ConfigManager() loads the registry file, and writes the
\* default structure over a file it cannot read), then main(): argparse
\* knows --network and --cidr only, and one of them is required.
AdvMain(p) ==
    /\ IsAdv(p, "spawned")
    /\ LET r == proc[p]
           load == load_config(store, TRUE)
           loaded == [r EXCEPT !.config = load.config,
                               !.events = IF load.found = "document" THEN @
                                          ELSE Ev(r, "registry_defaulted")]
       IN
       /\ proc' = [proc EXCEPT ![p] =
            IF r.topology
            THEN EarlyExit(r, 2, "usage_error")
            ELSE IF r.network_name = None /\ r.network_cidr = None
            THEN EarlyExit(r, 1, "no_target")
            ELSE [loaded EXCEPT !.pc = "validate"]]
       /\ store' = load.store
    /\ UNCHANGED <<srv_config, lockfile, results, history, sink,
                   ledger_vars, manager_vars, service_vars, codec_vars>>

\* run_full_scan: validate_target.
Validate(p) ==
    /\ IsAdv(p, "validate")
    /\ LET r == proc[p]
           valid == validate_target(r.config, r.network_name, r.network_cidr)
           next == after_validate(valid)
       IN
       proc' = [proc EXCEPT ![p] =
          LET e == [r EXCEPT !.events = Ev(r, IF valid THEN "target_valid"
                                                       ELSE "target_invalid")]
          IN  IF next = "raised"
              THEN RaiseEarly(e, "ValueError")
              ELSE [e EXCEPT !.pc = next,
                             !.network_cidr =
                                IF valid
                                THEN resolved_cidr(r.config, r.network_name,
                                                   r.network_cidr)
                                ELSE @]]
    /\ UNCHANGED <<store, srv_config, lockfile, results, history, sink,
                   ledger_vars, manager_vars, service_vars, codec_vars>>

\* get_lock, first half: open(lockfile, "w").
GetLockOpen(p) ==
    /\ IsAdv(p, "get_lock")
    /\ lockfile' = [lockfile EXCEPT ![AdvancedLockPath] = open_w(@)]
    /\ proc' = [proc EXCEPT ![p].pc = "flock", ![p].lock_fd = "open",
                            ![p].events = Ev(proc[p], "lock_opened")]
    /\ UNCHANGED <<store, srv_config, results, history, sink,
                   ledger_vars, manager_vars, service_vars, codec_vars>>

\* get_lock, second half: flock, then write "{pid}:{scan_id}"; on
\* BlockingIOError it returns None and the descriptor is dropped.
GetLockFlock(p) ==
    /\ IsAdv(p, "flock")
    /\ LET r == proc[p]
           locked == flock_nb(p, AdvancedLockPath)
           next == after_get_lock(locked)
       IN
       /\ proc' = [proc EXCEPT ![p] =
            LET e == [r EXCEPT !.lock_fd = IF locked THEN "locked" ELSE "none",
                               !.events = Ev(r, IF locked THEN "lock_acquired"
                                                          ELSE "lock_busy")]
            IN  IF next = "raised"
                THEN RaiseEarly(e, "RuntimeError")
                ELSE [e EXCEPT !.pc = next]]
       /\ lockfile' = IF locked
                      THEN [lockfile EXCEPT ![AdvancedLockPath] =
                                lock_text(p, scan_id_of(p))]
                      ELSE lockfile
    /\ UNCHANGED <<store, srv_config, results, history, sink,
                   ledger_vars, manager_vars, service_vars, codec_vars>>

\* run_full_scan: update_network_scan_info for a named target; save_config
\* writes this process's whole config over the registry file.
UpdateScanInfo(p) ==
    /\ IsAdv(p, "update_info")
    /\ LET r == proc[p]
           u == IF r.network_name # None
                THEN update_network_scan_info(r.config, r.network_name)
                ELSE <<r.config, FALSE>>
       IN
       /\ proc' = [proc EXCEPT ![p] =
            [r EXCEPT !.pc = "phase1", !.config = u[1],
                      !.events = IF u[2] THEN Ev(r, "registry_updated") ELSE @]]
       /\ store' = IF u[2] THEN json_file(u[1]) ELSE store
    /\ UNCHANGED <<srv_config, lockfile, results, history, sink,
                   ledger_vars, manager_vars, service_vars, codec_vars>>

\* run_phase1: subprocess.run of the discovery command starts.
Phase1Start(p) ==
    /\ IsAdv(p, "phase1")
    /\ proc' = [proc EXCEPT ![p].pc = "phase1_running",
                            ![p].events = Ev(proc[p], "phase1_started")]
    /\ UNCHANGED <<store, srv_config, lockfile, results, history, sink,
                   ledger_vars, manager_vars, service_vars, codec_vars>>

\* run_phase1: the command ends; on success its XML is parsed into
\* phase1_results (an unparseable document parses to the empty mapping).
Phase1Finish(p, outcome, discovered) ==
    /\ IsAdv(p, "phase1_running")
    /\ LET r == proc[p] IN
       proc' = [proc EXCEPT ![p] =
          IF phase1_raises(outcome)
          THEN Raise([r EXCEPT !.events = Ev(r, "phase1_failed")],
                     exception_of(outcome))
          ELSE [r EXCEPT !.pc = "phase2", !.idx = 1,
                         !.phase1_results = discovered,
                         !.events = Ev(r, IF outcome = "ok" THEN "phase1_done"
                                                           ELSE "phase1_failed")]]
    /\ UNCHANGED <<store, srv_config, lockfile, results, history, sink,
                   ledger_vars, manager_vars, service_vars, codec_vars>>

\* Variant: every turn of the loop takes the first host.
loop_host_first(phase1_results, idx) == phase1_results[1]

\* Variant: the loop counts its turns and takes the count for the host.
loop_host_position(phase1_results, idx) == idx

\* `for ip, ports in phase1_results.items()`: the host of the idx-th turn.
loop_host(phase1_results, idx) == phase1_results[idx]

\* run_phase2's loop head: the next host's detail command starts, or the
\* loop is over (at once when phase 1 found nothing) and
\* generate_summary_report builds the summary.
Phase2Next(p) ==
    /\ IsAdv(p, "phase2")
    /\ LET r == proc[p] IN
       proc' = [proc EXCEPT ![p] =
          IF r.idx <= Len(r.phase1_results)
          THEN [r EXCEPT !.pc = "phase2_running",
                         !.scanned = Append(@, loop_host(r.phase1_results, r.idx)),
                         !.events = IF r.idx = 1 THEN Ev(r, "phase2_started")
                                    ELSE @]
          ELSE [r EXCEPT !.pc = "save", !.events = Ev(r, "summary")]]
    /\ UNCHANGED <<store, srv_config, lockfile, results, history, sink,
                   ledger_vars, manager_vars, service_vars, codec_vars>>

\* run_phase2's loop body after the command ended.
Phase2Finish(p, outcome) ==
    /\ IsAdv(p, "phase2_running")
    /\ LET r == proc[p]
           ip == loop_host(r.phase1_results, r.idx)
           step == phase2_step(outcome)
           seen == [r EXCEPT !.ok_hosts =
                        IF outcome = "ok" THEN @ \cup {ip} ELSE @]
       IN
       proc' = [proc EXCEPT ![p] =
          IF step = "raise"
          THEN Raise([seen EXCEPT !.events = Ev(r, "phase2_raised")],
                     exception_of(outcome))
          ELSE [seen EXCEPT !.pc = "phase2", !.idx = @ + 1,
                            !.phase2_results =
                                IF step = "store" THEN Append(@, ip) ELSE @]]
    /\ UNCHANGED <<store, srv_config, lockfile, results, history, sink,
                   ledger_vars, manager_vars, service_vars, codec_vars>>

\* save_results: the per-run results file.
SaveResults(p, outcome) ==
    /\ IsAdv(p, "save")
    /\ LET r == proc[p] IN
       /\ proc' = [proc EXCEPT ![p] =
            IF save_raises(outcome)
            THEN Raise([r EXCEPT !.events = Ev(r, "save_failed")], "Exception")
            ELSE [r EXCEPT !.pc = "history",
                           !.events = Ev(r, IF outcome = "ok" THEN "results_written"
                                                             ELSE "save_failed")]]
       /\ results' = IF outcome = "ok" THEN results \cup {scan_id_of(p)}
                     ELSE results
    /\ UNCHANGED <<store, srv_config, lockfile, history, sink,
                   ledger_vars, manager_vars, service_vars, codec_vars>>

\* history[-max_history:] after the append.
max_history_files == 50

keep_last(h, n) ==
    IF Len(h) > n
    THEN IF n = 0 THEN h ELSE SubSeq(h, Len(h) - n + 1, Len(h))
    ELSE h

\* update_scan_history: load, append, truncate, write back.
UpdateHistory(p, outcome) ==
    /\ IsAdv(p, "history")
    /\ LET r == proc[p] IN
       /\ proc' = [proc EXCEPT ![p] =
            IF history_raises(outcome)
            THEN Raise([r EXCEPT !.events = Ev(r, "history_failed")], "Exception")
            ELSE [r EXCEPT !.pc = "influx",
                           !.events = Ev(r, IF outcome = "ok" THEN "history_appended"
                                                             ELSE "history_failed")]]
       /\ history' = IF outcome = "ok"
                     THEN keep_last(Append(history, scan_id_of(p)), max_history_files)
                     ELSE history
    /\ UNCHANGED <<store, srv_config, lockfile, results, sink,
                   ledger_vars, manager_vars, service_vars, codec_vars>>

\* send_to_influxdb: skipped when influxdb.enabled is false.
SendInflux(p, enabled, outcome) ==
    /\ IsAdv(p, "influx")
    /\ LET r == proc[p] IN
       /\ proc' = [proc EXCEPT ![p] =
            IF ~enabled
            THEN [r EXCEPT !.pc = "finish"]
            ELSE IF influx_raises(outcome)
            THEN Raise([r EXCEPT !.events = Ev(r, "push_failed")], "Exception")
            ELSE [r EXCEPT !.pc = "finish",
                           !.events = Ev(r, IF outcome = "ok" THEN "pushed"
                                                             ELSE "push_failed")]]
       /\ sink' = IF enabled /\ outcome = "ok" THEN sink \cup {scan_id_of(p)}
                  ELSE sink
    /\ UNCHANGED <<store, srv_config, lockfile, results, history,
                   ledger_vars, manager_vars, service_vars, codec_vars>>

\* run_full_scan returns the summary; its finally clause releases the lock.
Return(p) ==
    /\ IsAdv(p, "finish")
    /\ proc' = [proc EXCEPT ![p] =
                  Ended(@, "returned", "summary", release_lock(proc[p].lock_fd))]
    /\ UNCHANGED <<store, srv_config, lockfile, results, history, sink,
                   ledger_vars, manager_vars, service_vars, codec_vars>>

\* main(): 0 after a summary, 1 after any exception; the process ends.
MainExit(p) ==
    /\ proc[p].kind = "advanced"
    /\ proc[p].pc \in {"returned", "raised"}
    /\ proc' = [proc EXCEPT ![p] =
                  Exited(@, IF proc[p].pc = "returned" THEN 0 ELSE 1)]
    /\ UNCHANGED <<store, srv_config, lockfile, results, history, sink,
                   ledger_vars, manager_vars, service_vars, codec_vars>>

\* ------------------------------------------------------------- scan.py
IsBasic(p, pc) == proc[p].kind = "basic" /\ proc[p].pc = pc

\* obtain_lock, first half: open(lockfile, "w").
BasicObtainOpen(p) ==
    /\ IsBasic(p, "spawned")
    /\ lockfile' = [lockfile EXCEPT ![BasicLockPath] = open_w(@)]
    /\ proc' = [proc EXCEPT ![p].pc = "flock", ![p].lock_fd = "open",
                            ![p].events = Ev(proc[p], "lock_opened")]
    /\ UNCHANGED <<store, srv_config, results, history, sink,
                   ledger_vars, manager_vars, service_vars, codec_vars>>

\* obtain_lock, second half: flock and write the pid, or close the file and
\* return None, on which main() returns 0.
BasicObtainFlock(p) ==
    /\ IsBasic(p, "flock")
    /\ LET r == proc[p]
           locked == flock_nb(p, BasicLockPath)
       IN
       /\ proc' = [proc EXCEPT ![p] =
            IF locked
            THEN [r EXCEPT !.pc = "nmap", !.lock_fd = "locked",
                           !.events = Ev(r, "lock_acquired")]
            ELSE Exited([r EXCEPT !.events = Ev(r, "lock_busy")], 0)]
       /\ lockfile' = IF locked
                      THEN [lockfile EXCEPT ![BasicLockPath] = lock_text(p, 0)]
                      ELSE lockfile
    /\ UNCHANGED <<store, srv_config, results, history, sink,
                   ledger_vars, manager_vars, service_vars, codec_vars>>

\* main(): ensure_result_dir (an error there ends the process), then
\* run_nmap starts the scan.
BasicNmapStart(p, outcome) ==
    /\ IsBasic(p, "nmap")
    /\ LET r == proc[p] IN
       proc' = [proc EXCEPT ![p] =
          IF outcome = "ok"
          THEN [r EXCEPT !.pc = "nmap_running"]
          ELSE Exited([r EXCEPT !.events = Ev(r, "mkdir_failed")], 1)]
    /\ UNCHANGED <<store, srv_config, lockfile, results, history, sink,
                   ledger_vars, manager_vars, service_vars, codec_vars>>

\* main(): run_nmap ended; a failure releases the lock and returns 2.
BasicNmapFinish(p, outcome) ==
    /\ IsBasic(p, "nmap_running")
    /\ LET r == proc[p] IN
       proc' = [proc EXCEPT ![p] =
          IF outcome = "ok"
          THEN [r EXCEPT !.pc = "push"]
          ELSE Exited([r EXCEPT !.lock_fd = release_lock(@),
                                !.events = Ev(r, "nmap_failed")], 2)]
    /\ UNCHANGED <<store, srv_config, lockfile, results, history, sink,
                   ledger_vars, manager_vars, service_vars, codec_vars>>

\* main(): xml_to_points and push_to_influx (nothing is sent when there
\* are no points); the lock is released on both ways out.
BasicParsePush(p, points, outcome) ==
    /\ IsBasic(p, "push")
    /\ LET r == proc[p]
           failed == points /\ outcome # "ok"
       IN
       /\ proc' = [proc EXCEPT ![p] =
            Exited([r EXCEPT !.lock_fd = release_lock(@),
                             !.events = Ev(r, IF failed THEN "push_failed"
                                                        ELSE "basic_done")],
                   IF failed THEN 3 ELSE 0)]
       /\ sink' = IF points /\ outcome = "ok" THEN sink \cup {scan_id_of(p)}
                  ELSE sink
    /\ UNCHANGED <<store, srv_config, lockfile, results, history,
                   ledger_vars, manager_vars, service_vars, codec_vars>>

\* ------------------------------------------------------------- specification
Next ==
    \/ \E name \in Names \cup {None}, cidr \in CidrArgs \cup {None},
          topo \in BOOLEAN : HandleAdvancedScan(name, cidr, topo) /\ Silent
    \/ HandleScan /\ Silent
    \/ \E name \in Names \cup {None}, cidr \in CidrArgs \cup {None} :
          CommandLine(name, cidr)
    \/ \E p \in Procs :
          \/ AdvMain(p)
          \/ Validate(p)
          \/ GetLockOpen(p)
          \/ GetLockFlock(p)
          \/ UpdateScanInfo(p)
          \/ Phase1Start(p)
          \/ \E outcome \in Phase1Outcomes, discovered \in Discoveries :
                Phase1Finish(p, outcome, discovered)
          \/ Phase2Next(p)
          \/ \E outcome \in Phase2Outcomes : Phase2Finish(p, outcome)
          \/ \E outcome \in IoOutcomes : SaveResults(p, outcome)
          \/ \E outcome \in IoOutcomes : UpdateHistory(p, outcome)
          \/ \E enabled \in BOOLEAN, outcome \in PushOutcomes :
                SendInflux(p, enabled, outcome)
          \/ Return(p)
          \/ MainExit(p)
          \/ BasicObtainOpen(p)
          \/ BasicObtainFlock(p)
          \/ \E outcome \in IoOutcomes : BasicNmapStart(p, outcome)
          \/ \E outcome \in Phase1Outcomes : BasicNmapFinish(p, outcome)
          \/ \E points \in BOOLEAN, outcome \in PushOutcomes :
                BasicParsePush(p, points, outcome)

Spec == Init /\ [][Next]_vars

\* ------------------------------------------------------------- shared registry
\* The control surface changing the registry while scanner processes start,
\* load the registry file and record their scan in it.  A scan is started
\* for a registered network and followed up to its discovery phase.
SharingNext ==
    \/ \E name \in Names :
          srv_save = "none" /\ HandleAdvancedScan(name, None, FALSE) /\ Silent
    \/ \E name \in Names, cidr \in AddCidrs : HandleAddNetwork(name, cidr)
    \/ \E name \in Names : HandleRemoveNetwork(name)
    \/ \E name \in Names, enabled \in BOOLEAN :
          HandleEnableNetwork(name, enabled)
    \/ ServerSaveClose
    \/ \E p \in Procs :
          \/ AdvMain(p)
          \/ Validate(p)
          \/ GetLockOpen(p)
          \/ GetLockFlock(p)
          \/ UpdateScanInfo(p)
          \/ Phase1Start(p)
          \/ Phase1Finish(p, "error", <<>>)
          \/ MainExit(p)

SharingSpec == Init /\ [][SharingNext]_vars

\* ------------------------------------------------------------- one registry
\* One ConfigManager on its own: it is built from whatever the registry
\* file holds, and its methods are called one after the other, each with
\* the file writable or not.
RegNames == Names \cup {"dmz"}

\* An entry as a caller of update_config_section or import_config can write
\* it: nothing checks its cidr.
entry_with(cidr) ==
    [cidr |-> cidr, last_scan |-> "null", scan_count |-> 0, enabled |-> TRUE]

\* data of update_config_section("networks", data): one entry under a name.
SectionData ==
    {[n \in {name} |-> entry_with(cidr)] :
        name \in RegNames, cidr \in {"10.0.0.5/24", "not-a-cidr"}}

\* A document that parses but has none of the sections.
NoSections == [version |-> "1.0"]

\* config_json of import_config.
ImportTexts ==
    {GarbageFile, json_file(NoSections), json_file(create_default_config),
     json_file([networks |-> [n \in {"lan"} |-> entry_with("10.0.0.5/30")]])}

\* ConfigManager(): __init__ calls load_config; an exception leaving it
\* leaves the constructor (and, for the module-level instance, the import).
Construct(save_ok) ==
    /\ cm.state = "none"
    /\ LET load == load_config(store, save_ok) IN
       /\ cm' = [state |-> IF load.raised THEN "raised" ELSE "ready",
                 loaded |-> load.found, config |-> load.config]
       /\ store' = load.store
    /\ UNCHANGED <<proc, srv_config, lockfile, results, history, sink,
                   ledger_vars, ret, srv_save,
                   service_vars, codec_vars>>

\* A method call: r is <<config after the method's own changes, whether it
\* went on to save_config>>.  save_config raising is caught by the method,
\* which then returns False (None for update_network_scan_info); what it
\* had changed in memory stays changed.
ManagerCall(op, name, arg, r, save_ok, value) ==
    /\ cm.state = "ready"
    /\ ret.seq < MaxCalls
    /\ cm' = [cm EXCEPT !.config = r[1]]
    /\ store' = IF r[2] /\ save_ok THEN json_file(r[1]) ELSE store
    /\ ret' = [seq |-> ret.seq + 1, op |-> op, name |-> name, arg |-> arg,
               writable |-> save_ok, value |-> value]
    /\ UNCHANGED <<proc, srv_config, lockfile, results, history, sink,
                   ledger_vars, srv_save,
                   service_vars, codec_vars>>

CallAddNetwork(name, cidr, save_ok) ==
    LET r == add_network(cm.config, name, cidr) IN
    ManagerCall("add_network", name, cidr, r, save_ok, r[2] /\ save_ok)

CallRemoveNetwork(name, save_ok) ==
    LET r == remove_network(cm.config, name) IN
    ManagerCall("remove_network", name, None, r, save_ok, r[2] /\ save_ok)

CallEnableNetwork(name, enabled, save_ok) ==
    LET r == enable_network(cm.config, name, enabled) IN
    ManagerCall("enable_network", name, enabled, r, save_ok, r[2] /\ save_ok)

CallUpdateScanInfo(name, save_ok) ==
    LET r == update_network_scan_info(cm.config, name) IN
    ManagerCall("update_network_scan_info", name, None, r, save_ok, None)

CallUpdateConfigSection(section, data, save_ok) ==
    LET r == update_config_section(cm.config, section, data) IN
    ManagerCall("update_config_section", section, data, r, save_ok,
                r[2] /\ save_ok)

CallImportConfig(text, save_ok) ==
    LET r == import_config(cm.config, text) IN
    ManagerCall("import_config", None, text, r, save_ok, r[2] /\ save_ok)

\* The registry file before the process starts: missing, unparseable, a
\* document without sections, or a registry written earlier.
RegistryInit ==
    /\ store \in {NoFile, GarbageFile, json_file(NoSections)}
                 \cup {json_file(config) : config \in InitialRegistries}
    /\ cm = NoManager
    /\ ret = NoCall
    /\ srv_save = "none"
    /\ answer = NoResponse
    /\ srv_config = create_default_config
    /\ LedgerAside
    /\ CodecAside
    /\ proc = [p \in Procs |-> NoProcess]
    /\ lockfile = [f \in LockPaths |-> [exists |-> FALSE, pid |-> 0, scan_id |-> 0]]
    /\ results = {}
    /\ history = <<>>
    /\ sink = {}

RegistryNext ==
    \/ \E save_ok \in BOOLEAN : Construct(save_ok)
    \/ \E name \in RegNames, cidr \in CidrTexts, save_ok \in BOOLEAN :
          CallAddNetwork(name, cidr, save_ok)
    \/ \E name \in RegNames, save_ok \in BOOLEAN :
          CallRemoveNetwork(name, save_ok)
    \/ \E name \in RegNames, enabled \in BOOLEAN, save_ok \in BOOLEAN :
          CallEnableNetwork(name, enabled, save_ok)
    \/ \E name \in RegNames, save_ok \in BOOLEAN :
          CallUpdateScanInfo(name, save_ok)
    \/ \E section \in {"networks", "no_such_section"}, data \in SectionData,
          save_ok \in BOOLEAN :
          CallUpdateConfigSection(section, data, save_ok)
    \/ \E text \in ImportTexts, save_ok \in BOOLEAN :
          CallImportConfig(text, save_ok)

RegistrySpec == RegistryInit /\ [][RegistryNext]_vars

\* ------------------------------------------------------------- history ledger
\* update_scan_history and GET /scan-history on scan_history.json alone.
\* Runs reach update_scan_history one at a time (each is inside the
\* orchestration lock); the control surface reads the file whenever asked.

\* update_scan_history up to its write: the file is loaded when it exists,
\* the entry is appended and the list cut.  A file json.load rejects raises
\* inside the try block: the except clause logs, and the method is over.
HistLoad ==
    /\ appender.pc = "idle"
    /\ appender.scan_id < MaxAppends
    /\ LET id == appender.scan_id + 1
           loaded == IF exists(history_file) THEN json_load(history_file)
                     ELSE <<TRUE, <<>>>>
       IN
       appender' =
          IF loaded[1]
          THEN [pc |-> "open", scan_id |-> id, found |-> history_file.state,
                history |-> keep_last(Append(loaded[2], id), max_history),
                outcome |-> "none"]
          ELSE [pc |-> "idle", scan_id |-> id, found |-> history_file.state,
                history |-> <<>>, outcome |-> "load_failed"]
    /\ UNCHANGED <<history_file, max_history, reader, appended>>
    /\ UNCHANGED <<proc, store, srv_config, lockfile, results, history, sink,
                   manager_vars, service_vars, codec_vars>>

\* os.makedirs and open(history_file, "w"): the file is empty from here on.
HistOpen(outcome) ==
    /\ appender.pc = "open"
    /\ IF outcome = "ok"
       THEN /\ history_file' = EmptyFile
            /\ appender' = [appender EXCEPT !.pc = "dump"]
       ELSE /\ appender' = [appender EXCEPT !.pc = "idle",
                                             !.outcome = "open_failed"]
            /\ UNCHANGED history_file
    /\ UNCHANGED <<max_history, reader, appended>>
    /\ UNCHANGED <<proc, store, srv_config, lockfile, results, history, sink,
                   manager_vars, service_vars, codec_vars>>

\* json.dump writes the document piece by piece: a full buffer goes to the
\* file before the document is complete.
HistFlush ==
    /\ appender.pc = "dump"
    /\ history_file.state = "empty"
    /\ history_file' = PartialFile
    /\ UNCHANGED <<max_history, appender, reader, appended>>
    /\ UNCHANGED <<proc, store, srv_config, lockfile, results, history, sink,
                   manager_vars, service_vars, codec_vars>>

\* json.dump ends and the with block closes the file; a write error leaves
\* what was written so far.
HistDump(outcome) ==
    /\ appender.pc = "dump"
    /\ IF outcome = "ok"
       THEN /\ history_file' = json_file(appender.history)
            /\ appended' = Append(appended, appender.scan_id)
            /\ appender' = [appender EXCEPT !.pc = "idle", !.outcome = "written"]
       ELSE /\ history_file' = PartialFile
            /\ appender' = [appender EXCEPT !.pc = "idle",
                                             !.outcome = "dump_failed"]
            /\ UNCHANGED appended
    /\ UNCHANGED <<max_history, reader>>
    /\ UNCHANGED <<proc, store, srv_config, lockfile, results, history, sink,
                   manager_vars, service_vars, codec_vars>>

\* _handle_scan_history: 200 with an empty history when the file is not
\* there, 200 with the parsed list, 500 when open or json.load raises.
HandleScanHistory ==
    /\ reader' =
          IF ~exists(history_file)
          THEN [status |-> 200, saw |-> "absent", history |-> <<>>]
          ELSE LET loaded == json_load(history_file) IN
               IF loaded[1]
               THEN [status |-> 200, saw |-> "json", history |-> loaded[2]]
               ELSE [status |-> 500, saw |-> history_file.state,
                     history |-> <<>>]
    /\ UNCHANGED <<history_file, max_history, appender, appended>>
    /\ UNCHANGED <<proc, store, srv_config, lockfile, results, history, sink,
                   manager_vars, service_vars, codec_vars>>

\* The ledger before the first run: no file, an empty list, or a file that
\* does not parse; max_history_files is any configured value.
HistoryInit ==
    /\ history_file \in {NoFile, json_file(<<>>), GarbageFile}
    /\ max_history \in 0..MaxHistory
    /\ appender = NoAppender
    /\ reader = NoAnswer
    /\ appended = <<>>
    /\ ManagerAside
    /\ CodecAside
    /\ proc = [p \in Procs |-> NoProcess]
    /\ store = json_file(create_default_config)
    /\ srv_config = store.value
    /\ lockfile = [f \in LockPaths |-> [exists |-> FALSE, pid |-> 0, scan_id |-> 0]]
    /\ results = {}
    /\ history = <<>>
    /\ sink = {}

HistoryNext ==
    \/ HistLoad
    \/ \E outcome \in IoOutcomes : HistOpen(outcome)
    \/ HistFlush
    \/ \E outcome \in IoOutcomes : HistDump(outcome)
    \/ HandleScanHistory

HistorySpec == HistoryInit /\ [][HistoryNext]_vars

\* ------------------------------------------------------------- control surface, answering
\* The control surface as its clients see it: POST /advanced-scan, POST
\* /scan and GET /status with their responses kept in answer, beside the
\* scanner processes that take and release the two locks.

\* ps -p <pid>: whether a process with this pid exists.
alive(pid) == pid \in Procs /\ proc[pid].pc \notin {"none", "exited"}

\* _check_active_scans on one lock file that exists: lock_valid needs a ":"
\* in the content and a live process under the pid before it; the status is
\* "active_lock" for a valid lock and "stale_lock" otherwise, and
\* "stale_lock" for any file older than an hour.
lock_status(file, old) ==
    LET lock_valid == file.scan_id # 0 /\ alive(file.pid) IN
    IF old THEN "stale_lock"
    ELSE IF lock_valid THEN "active_lock" ELSE "stale_lock"

\* GET /status: one entry per lock file that exists; aged are the files
\* whose last write is more than an hour ago.
HandleStatus(aged) ==
    /\ \A path \in aged : lockfile[path].exists
    /\ answer' =
          [route |-> "/status", status |-> 200,
           locks |-> [path \in LockPaths |->
                        IF lockfile[path].exists
                        THEN lock_status(lockfile[path], path \in aged)
                        ELSE "no_entry"],
           aged |-> aged]
    /\ UNCHANGED <<proc, store, srv_config, lockfile, results, history, sink,
                   ledger_vars, manager_vars, codec_vars>>

\* Requests arrive at any moment; a started scan discovers no host or one,
\* and its file writes and its push succeed.
ServiceNext ==
    \/ \E name \in Names \cup {None}, cidr \in CidrArgs \cup {None} :
          /\ HandleAdvancedScan(name, cidr, FALSE)
          /\ Respond("/advanced-scan",
                     advanced_scan_status(srv_config, name, cidr))
    \/ HandleScan /\ Respond("/scan", 202)
    \/ \E aged \in SUBSET LockPaths : HandleStatus(aged)
    \/ \E p \in Procs :
          \/ AdvMain(p)
          \/ Validate(p)
          \/ GetLockOpen(p)
          \/ GetLockFlock(p)
          \/ UpdateScanInfo(p)
          \/ Phase1Start(p)
          \/ \E outcome \in {"ok", "timeout"} : Phase1Finish(p, outcome, <<>>)
          \/ Phase2Next(p)
          \/ SaveResults(p, "ok")
          \/ UpdateHistory(p, "ok")
          \/ SendInflux(p, FALSE, "ok")
          \/ Return(p)
          \/ MainExit(p)
          \/ BasicObtainOpen(p)
          \/ BasicObtainFlock(p)
          \/ BasicNmapStart(p, "ok")
          \/ \E outcome \in {"ok", "timeout"} : BasicNmapFinish(p, outcome)
          \/ BasicParsePush(p, FALSE, "ok")

ServiceSpec == Init /\ [][ServiceNext]_vars

\* ------------------------------------------------------------- discovery documents
\* No run, no request and no registry call under way.
RunAside ==
    /\ proc = [p \in Procs |-> NoProcess]
    /\ store = json_file(create_default_config)
    /\ srv_config = store.value
    /\ lockfile = [f \in LockPaths |-> [exists |-> FALSE, pid |-> 0, scan_id |-> 0]]
    /\ results = {}
    /\ history = <<>>
    /\ sink = {}

\* The XML nmap writes with -oX, as ElementTree hands it to the parsers: a
\* root with host elements; a host has address elements, at most one
\* hostnames and one os element, and a ports element or none.  A host's
\* address is the number of the host (0: the addr attribute is missing).
address(addrtype, addr) == [addrtype |-> addrtype, addr |-> addr]
MacAddress == address("mac", 0)

\* A text is a sequence of symbols: a symbol is one of the characters the
\* line protocol gives a meaning to, or a run of other characters.
\* port.find("service"): none, or an element with its attributes as texts
\* (a missing attribute reads as the empty text).
NoServiceElement ==
    [present |-> FALSE, name |-> <<>>, product |-> <<>>, version |-> <<>>]
service_element(name, product, version) ==
    [present |-> TRUE, name |-> name, product |-> product, version |-> version]

detail_port(portid, protocol, state, service) ==
    [portid |-> portid, protocol |-> protocol, state |-> state,
     service |-> service]
port_element(portid, protocol, state) ==
    detail_port(portid, protocol, state, NoServiceElement)

\* host.find("ports") is None
NoPortsElement == [present |-> FALSE, port |-> <<>>]
ports_element(port) == [present |-> TRUE, port |-> port]

\* The address lists a host element comes with: none, a MAC address alone,
\* an IPv4 address, an IPv6 address after a MAC address.
AddressLists ==
    {<<>>, <<MacAddress>>, <<MacAddress, address("ipv6", 1)>>}
    \cup {<<address("ipv4", h)>> : h \in Hosts}

\* The ports a discovery reports for a host: none at all, nothing open,
\* open ports out of order, a port number open under both protocols.
DiscoveryPorts ==
    {NoPortsElement,
     ports_element(<<>>),
     ports_element(<<port_element(80, "tcp", "closed")>>),
     ports_element(<<port_element(80, "tcp", "open"),
                     port_element(22, "tcp", "open"),
                     port_element(443, "tcp", "open")>>),
     ports_element(<<port_element(443, "tcp", "open"),
                     port_element(80, "tcp", "filtered"),
                     port_element(22, "tcp", "open")>>),
     ports_element(<<port_element(53, "tcp", "open"),
                     port_element(53, "udp", "open")>>)}

DiscoveryHosts ==
    {[address |-> a, ports |-> p, hostname |-> "", os |-> <<>>] :
        a \in AddressLists, p \in DiscoveryPorts}

\* A file ET.parse raises on, and a document with its host elements.
Malformed == [wellformed |-> FALSE, host |-> <<>>]
document(host) == [wellformed |-> TRUE, host |-> host]

DiscoveryDocuments ==
    {Malformed}
    \cup {document(h) : h \in UNION {[1..n -> DiscoveryHosts] : n \in 0..MaxHosts}}

\* The parsers' address loop: the addr of the first address element whose
\* addrtype is ipv4 or ipv6; 0 stands for None.
RECURSIVE first_ip(_, _)
first_ip(addresses, i) ==
    IF i > Len(addresses) THEN 0
    ELSE IF addresses[i].addrtype \in {"ipv4", "ipv6"} THEN addresses[i].addr
    ELSE first_ip(addresses, i + 1)

\* The open-port loop: int(portid) of every port element whose state is
\* open, in document order.
RECURSIVE open_ports_of(_, _)
open_ports_of(port, i) ==
    IF i > Len(port) THEN <<>>
    ELSE IF port[i].state = "open"
         THEN <<port[i].portid>> \o open_ports_of(port, i + 1)
         ELSE open_ports_of(port, i + 1)

\* sorted(list) of integers: ascending, equal elements kept.
RECURSIVE insert_sorted(_, _)
insert_sorted(x, list) ==
    IF list = <<>> THEN <<x>>
    ELSE IF x <= Head(list) THEN <<x>> \o list
    ELSE <<Head(list)>> \o insert_sorted(x, Tail(list))

\* Variant: the list is returned as it was collected.
sorted_as_collected(list) == list

RECURSIVE sorted(_)
sorted(list) ==
    IF list = <<>> THEN <<>> ELSE insert_sorted(Head(list), sorted(Tail(list)))

\* results[ip] = value on a dict kept as a function.
dict_set(dict, key, value) ==
    [k \in DOMAIN dict \cup {key} |-> IF k = key THEN value ELSE dict[k]]

\* _parse_phase1_xml's loop over root.findall("host"): a host without an
\* address is skipped, one without an open port gets no entry.
RECURSIVE parse_phase1_hosts(_, _, _)
parse_phase1_hosts(host, i, acc) ==
    IF i > Len(host) THEN acc
    ELSE LET ip == first_ip(host[i].address, 1)
             open_ports == IF host[i].ports.present
                           THEN open_ports_of(host[i].ports.port, 1)
                           ELSE <<>>
         IN  IF ip = 0 \/ open_ports = <<>>
             THEN parse_phase1_hosts(host, i + 1, acc)
             ELSE parse_phase1_hosts(host, i + 1,
                                     dict_set(acc, ip, sorted(open_ports)))

\* _parse_phase1_xml: {ip: [ports]}; any exception gives {}.
parse_phase1_xml(doc) ==
    IF ~doc.wellformed THEN <<>> ELSE parse_phase1_hosts(doc.host, 1, <<>>)

\* _parse_phase1_xml applied to the document at hand.
ParsePhase1 ==
    /\ input.kind = "phase1_xml"
    /\ output = NoOutput
    /\ output' = [kind |-> "phase1_results",
                  value |-> parse_phase1_xml(input.doc)]
    /\ UNCHANGED <<proc, store, srv_config, lockfile, results, history, sink,
                   ledger_vars, manager_vars, service_vars, input>>

DiscoveryInit ==
    /\ input \in {[kind |-> "phase1_xml", doc |-> d] : d \in DiscoveryDocuments}
    /\ output = NoOutput
    /\ RunAside
    /\ LedgerAside
    /\ ManagerAside

DiscoveryNext == ParsePhase1

DiscoverySpec == DiscoveryInit /\ [][DiscoveryNext]_vars

\* ------------------------------------------------------------- detail documents
\* What a detail scan reports about a host, beside its address: a host
\* name, ports with their services, OS guesses.
DetailProfiles ==
    {[hostname |-> <<"alpha">>,
      ports |-> ports_element(
         <<detail_port(22, "tcp", "open",
                       service_element(<<"ssh">>, <<"OpenSSH">>, <<"8.9">>))>>),
      os |-> <<[name |-> "Linux 5.x", accuracy |-> "98"]>>],
     [hostname |-> <<>>,
      ports |-> ports_element(
         <<detail_port(80, "tcp", "open",
                       service_element(<<"http">>, <<>>, <<>>)),
           detail_port(443, "tcp", "closed", NoServiceElement)>>),
      os |-> <<>>],
     [hostname |-> <<"gamma">>,
      ports |-> NoPortsElement,
      os |-> <<[name |-> "", accuracy |-> "90"],
               [name |-> "FreeBSD", accuracy |-> "85"]>>]}

DetailHosts ==
    {[address |-> a, ports |-> d.ports, hostname |-> d.hostname, os |-> d.os] :
        a \in AddressLists, d \in DetailProfiles}

\* Detail documents: nmap is run on one address, but the parser takes any
\* number of host elements.
DetailDocuments ==
    {Malformed}
    \cup {document(h) : h \in UNION {[1..n -> DetailHosts] : n \in 0..MaxHosts}}

\* host_data = {}
EmptyDetail ==
    [empty |-> TRUE, ip |-> 0, hostname |-> <<>>, ports |-> <<>>, os |-> <<>>]

\* ports_info: f"{port_num}/{protocol}" -> state and service (the key is
\* kept as the pair it is made of and split into again).
RECURSIVE ports_info_of(_, _, _)
ports_info_of(port, i, acc) ==
    IF i > Len(port) THEN acc
    ELSE ports_info_of(port, i + 1,
            dict_set(acc, <<port[i].portid, port[i].protocol>>,
                     [state |-> port[i].state, service |-> port[i].service]))

\* os_info: osmatch name -> accuracy, for the matches that have a name.
RECURSIVE os_info_of(_, _, _)
os_info_of(osmatch, i, acc) ==
    IF i > Len(osmatch) THEN acc
    ELSE os_info_of(osmatch, i + 1,
            IF osmatch[i].name # ""
            THEN dict_set(acc, osmatch[i].name, osmatch[i].accuracy)
            ELSE acc)

\* Variant: the first host's detail is kept.
retain_first(host_data, detail) ==
    IF host_data.empty THEN detail ELSE host_data

\* host_data = {...} at the end of the loop body: whatever an earlier host
\* element left there is replaced.
retain(host_data, detail) == detail

\* _parse_phase2_xml's loop over root.findall("host"): a host element
\* without an ipv4/ipv6 address is passed over and leaves host_data alone.
RECURSIVE parse_phase2_hosts(_, _, _)
parse_phase2_hosts(host, i, host_data) ==
    IF i > Len(host) THEN host_data
    ELSE LET ip == first_ip(host[i].address, 1) IN
         IF ip = 0
         THEN parse_phase2_hosts(host, i + 1, host_data)
         ELSE parse_phase2_hosts(host, i + 1,
                 retain(host_data,
                    [empty |-> FALSE, ip |-> ip,
                     hostname |-> host[i].hostname,
                     ports |-> IF host[i].ports.present
                               THEN ports_info_of(host[i].ports.port, 1, <<>>)
                               ELSE <<>>,
                     os |-> os_info_of(host[i].os, 1, <<>>)]))

\* _parse_phase2_xml: host_data; any exception gives {}.
parse_phase2_xml(doc) ==
    IF ~doc.wellformed THEN EmptyDetail
    ELSE parse_phase2_hosts(doc.host, 1, EmptyDetail)

ParsePhase2 ==
    /\ input.kind = "phase2_xml"
    /\ output = NoOutput
    /\ output' = [kind |-> "host_data", value |-> parse_phase2_xml(input.doc)]
    /\ UNCHANGED <<proc, store, srv_config, lockfile, results, history, sink,
                   ledger_vars, manager_vars, service_vars, input>>

DetailInit ==
    /\ input \in {[kind |-> "phase2_xml", doc |-> d] : d \in DetailDocuments}
    /\ output = NoOutput
    /\ RunAside
    /\ LedgerAside
    /\ ManagerAside

DetailNext == ParsePhase2

DetailSpec == DetailInit /\ [][DetailNext]_vars

\* ------------------------------------------------------------- a run over its documents
\* The keys of _parse_phase1_xml's dict in the order run_phase2's loop
\* takes them: that of their first insertion.
RECURSIVE dict_keys(_, _, _)
dict_keys(host, i, acc) ==
    IF i > Len(host) THEN acc
    ELSE LET ip == first_ip(host[i].address, 1)
             inserted == /\ ip # 0
                         /\ host[i].ports.present
                         /\ open_ports_of(host[i].ports.port, 1) # <<>>
         IN  dict_keys(host, i + 1,
                       IF inserted /\ \A j \in DOMAIN acc : acc[j] # ip
                       THEN Append(acc, ip) ELSE acc)

\* What run_phase1 hands on after a successful command.
phase1_keys(doc) ==
    IF DOMAIN parse_phase1_xml(doc) = {} THEN <<>>
    ELSE dict_keys(doc.host, 1, <<>>)

\* `if host_results:` on what _parse_phase2_xml returned.
detail_outcome(host_results) == IF host_results.empty THEN "empty" ELSE "ok"

\* The files one run's nmap commands write: the discovery document (not
\* parseable, or hosts with one open port each), and per host a detail
\* document: not parseable, the host with its service, or a host element
\* without address.
OpenHost(h) ==
    [address |-> <<address("ipv4", h)>>,
     ports |-> ports_element(<<port_element(22, "tcp", "open")>>),
     hostname |-> "", os |-> <<>>]

DetailHost(a) ==
    [address |-> a,
     ports |-> ports_element(
        <<detail_port(22, "tcp", "open",
                      service_element(<<"ssh">>, <<"OpenSSH">>, <<"8.9">>))>>),
     hostname |-> <<"alpha">>, os |-> <<>>]

RunDocuments ==
    {[kind |-> "run_documents", phase1 |-> discovery, phase2 |-> detail] :
        discovery \in {Malformed}
                      \cup {document([i \in DOMAIN s |-> OpenHost(s[i])]) :
                               s \in Discoveries},
        detail \in {d \in [Hosts -> {Malformed}
                                    \cup {document(<<DetailHost(a)>>) :
                                             a \in AddressLists}] :
                       \A h \in Hosts :
                          d[h].wellformed =>
                             d[h].host[1].address
                                \in {<<MacAddress>>, <<address("ipv4", h)>>}}}

\* run_phase1 after a successful command: _parse_phase1_xml on its file.
ParsedPhase1(p) ==
    Phase1Finish(p, "ok", phase1_keys(input.phase1))

\* run_phase2's loop body after a successful command: _parse_phase2_xml on
\* the host's file.
ParsedPhase2(p) ==
    /\ IsAdv(p, "phase2_running")
    /\ Phase2Finish(p, detail_outcome(parse_phase2_xml(
                          input.phase2[proc[p].phase1_results[proc[p].idx]])))

RecoveryInit ==
    /\ LedgerAside
    /\ ManagerAside
    /\ RunAside
    /\ input \in RunDocuments
    /\ output = NoOutput

\* One run from the command line on a CIDR, its commands succeeding or
\* phase 1 timing out, its writes succeeding or failing.
RecoveryNext ==
    \/ (\A q \in Procs : proc[q].kind = "none")
          /\ CommandLine(None, "10.0.0.0/24")
    \/ \E p \in Procs :
          \/ AdvMain(p)
          \/ Validate(p)
          \/ GetLockOpen(p)
          \/ GetLockFlock(p)
          \/ UpdateScanInfo(p)
          \/ Phase1Start(p)
          \/ ParsedPhase1(p)
          \/ Phase1Finish(p, "timeout", <<>>)
          \/ Phase2Next(p)
          \/ ParsedPhase2(p)
          \/ \E outcome \in IoOutcomes : SaveResults(p, outcome)
          \/ \E outcome \in IoOutcomes : UpdateHistory(p, outcome)
          \/ SendInflux(p, FALSE, "ok")
          \/ Return(p)
          \/ MainExit(p)

RecoverySpec == RecoveryInit /\ [][RecoveryNext]_vars

\* ------------------------------------------------------------- summary and points
\* The characters the line protocol gives a meaning to.
Backslash == "\\"
Quote == "\""
Space == " "
Comma == ","
Equals == "="
SpecialSymbols == {Backslash, Space, Comma, Equals, Quote}

\* Free texts: up to MaxText symbols, special ones or the run "a".
Texts == UNION {[1..n -> SpecialSymbols \cup {"a"}] : n \in 0..MaxText}

\* A Python value kept with its type, where the type is what is asked about.
py_int(n) == [type |-> "int", value |-> n]
py_list(elements) == [type |-> "list", value |-> elements]

\* A dict's items, one after the other.
RECURSIVE items(_)
items(dict) ==
    IF DOMAIN dict = {} THEN <<>>
    ELSE LET k == CHOOSE k \in DOMAIN dict : TRUE IN
         <<<<k, dict[k]>>>>
            \o items([j \in DOMAIN dict \ {k} |-> dict[j]])

\* sum(len(ports) for ports in phase1_results.values())
RECURSIVE total_ports(_)
total_ports(entries) ==
    IF entries = <<>> THEN 0
    ELSE Len(Head(entries)[2]) + total_ports(Tail(entries))

\* The service names generate_summary_report collects from one host's
\* ports: port_info["service"].get("name", ""), kept when not empty.
service_names_of(host_data) ==
    {host_data.ports[k].service.name : k \in DOMAIN host_data.ports} \ {<<>>}

\* Variant: the ports are counted once per host.
total_open_ports_per_host(phase1_results) == Cardinality(DOMAIN phase1_results)

total_open_ports(phase1_results) == total_ports(items(phase1_results))

\* generate_summary_report: counts of phase 1, counts and service names of
\* phase 2, and both results.  unique_services is the number of names,
\* services_list the names (sorted; kept here as the set of them).
generate_summary_report(scan_id, network_name, network_cidr, phase1_results, phase2_results) ==
    LET unique_services ==
            UNION {service_names_of(phase2_results[ip]) :
                      ip \in DOMAIN phase2_results}
    IN  [scan_id |-> scan_id,
         network |-> [name |-> network_name, cidr |-> network_cidr],
         statistics |->
            [phase1 |->
                [hosts_with_open_ports |-> Cardinality(DOMAIN phase1_results),
                 total_open_ports |-> total_open_ports(phase1_results)],
             phase2 |->
                [hosts_analyzed |-> Cardinality(DOMAIN phase2_results),
                 unique_services |-> py_int(Cardinality(unique_services)),
                 services_list |-> py_list(unique_services)]],
         results |->
            [phase1_summary |->
                [ip \in DOMAIN phase1_results |-> Len(phase1_results[ip])],
             phase2_detailed |-> phase2_results]]

\* f"{key}={value}" and ",".join(parts), on texts.
key_value(key, value) == <<key, Equals>> \o value

RECURSIVE join(_, _)
join(sep, parts) ==
    IF parts = <<>> THEN <<>>
    ELSE IF Len(parts) = 1 THEN parts[1]
    ELSE parts[1] \o <<sep>> \o join(sep, Tail(parts))

\* f'{key}="{value}"'
quoted_field(key, value) == <<key, Equals, Quote>> \o value \o <<Quote>>

\* The tag value as _convert_to_influx_points puts it into the f-string:
\* the text itself.
tag_value(text) == text

\* now_ns, the timestamp every point of one call ends with.
NowNs == "1700000000000000000"

\* The summary point of _convert_to_influx_points, under the default
\* measurement advanced_nmap_scan; the duration is one fixed float.
summary_point(summary) ==
    join(Comma,
         <<<<"advanced_nmap_scan_summary">>,
           key_value("scan_id", tag_value(<<summary.scan_id>>)),
           key_value("network_name",
                     tag_value(IF summary.network.name # <<>>
                               THEN summary.network.name ELSE <<"manual">>)),
           key_value("network_cidr", tag_value(summary.network.cidr))>>)
    \o <<Space>>
    \o join(Comma,
         <<<<"hosts_discovered", Equals,
             ToString(summary.statistics.phase1.hosts_with_open_ports), "i">>,
           <<"ports_found", Equals,
             ToString(summary.statistics.phase1.total_open_ports), "i">>,
           <<"services_identified", Equals,
             ToString(summary.statistics.phase2.unique_services.value), "i">>,
           <<"duration_seconds", Equals, "12.5">>>>)
    \o <<Space, NowNs>>

\* One ports point: port_key is split at "/", the service name is "unknown"
\* when the port has no service dict entry, product and version are added
\* when not empty.
ports_point(scan_id, ip, port_key, port_info) ==
    LET service == port_info.service
        service_name == IF service.present THEN service.name ELSE <<"unknown">>
        fields ==
            <<quoted_field("state", <<port_info.state>>)>>
            \o (IF service.product # <<>>
                THEN <<quoted_field("product", service.product)>> ELSE <<>>)
            \o (IF service.version # <<>>
                THEN <<quoted_field("version", service.version)>> ELSE <<>>)
    IN  join(Comma,
             <<<<"advanced_nmap_scan_ports">>,
               key_value("scan_id", tag_value(<<scan_id>>)),
               key_value("ip", tag_value(<<ToString(ip)>>)),
               key_value("port", tag_value(<<ToString(port_key[1])>>)),
               key_value("protocol", tag_value(<<port_key[2]>>)),
               key_value("service", tag_value(service_name))>>)
        \o <<Space>> \o join(Comma, fields) \o <<Space, NowNs>>

RECURSIVE ports_points_of(_, _, _)
ports_points_of(scan_id, ip, port_items) ==
    IF port_items = <<>> THEN <<>>
    ELSE <<ports_point(scan_id, ip, Head(port_items)[1], Head(port_items)[2])>>
         \o ports_points_of(scan_id, ip, Tail(port_items))

RECURSIVE host_points_of(_, _)
host_points_of(scan_id, host_items) ==
    IF host_items = <<>> THEN <<>>
    ELSE ports_points_of(scan_id, Head(host_items)[1],
                         items(Head(host_items)[2].ports))
         \o host_points_of(scan_id, Tail(host_items))

\* _convert_to_influx_points: the summary point, then one point per port of
\* every host of phase2_detailed.
convert_to_influx_points(summary) ==
    <<summary_point(summary)>>
    \o host_points_of(summary.scan_id, items(summary.results.phase2_detailed))

\* What two finished phases hand to generate_summary_report: phase 2
\* analyzed hosts that phase 1 found.  Host 1 was
\* found with two open ports and the others with one; a host that was
\* analyzed has ssh and http, or one port under a free service name (with a
\* product or without), or a port without a service element beside one
\* whose service has an empty name.
HostData(ip, port_info) ==
    [empty |-> FALSE, ip |-> ip, hostname |-> <<>>, ports |-> port_info,
     os |-> <<>>]

KnownServices ==
    dict_set(dict_set(<<>>, <<22, "tcp">>,
                      [state |-> "open",
                       service |-> service_element(<<"ssh">>, <<>>, <<>>)]),
             <<80, "tcp">>,
             [state |-> "open",
              service |-> service_element(<<"http">>, <<"Apache", Space, "httpd">>,
                                          <<"2.4">>)])

Unnamed ==
    dict_set(dict_set(<<>>, <<53, "udp">>,
                      [state |-> "open", service |-> NoServiceElement]),
             <<22, "tcp">>,
             [state |-> "closed",
              service |-> service_element(<<>>, <<>>, <<>>)])

FreeService(name, product) ==
    dict_set(<<>>, <<22, "tcp">>,
             [state |-> "open",
              service |-> service_element(name, product, <<>>)])

AnalyzedHost(ip) ==
    {HostData(ip, KnownServices), HostData(ip, Unnamed)}
    \cup (IF ip = 1
          THEN {HostData(ip, FreeService(name, product)) :
                   name \in Texts, product \in {<<>>, <<"a", Quote>>}}
          ELSE {})

Analyses(found) ==
    UNION {{d \in [analyzed -> UNION {AnalyzedHost(ip) : ip \in analyzed}] :
               \A ip \in analyzed : d[ip].ip = ip} :
           analyzed \in SUBSET found}

ScanResults ==
    UNION {{[network_name |-> name,
             phase1_results |->
                [ip \in found |-> IF ip = 1 THEN <<22, 80>> ELSE <<53>>],
             phase2_results |-> detail] :
               name \in {<<>>, <<"lan">>, <<"Home", Space, "LAN">>},
               detail \in Analyses(found)} :
           found \in SUBSET Hosts}

\* generate_summary_report on the results at hand.
GenerateSummaryReport ==
    /\ input.kind = "scan_results"
    /\ output = NoOutput
    /\ output' = [kind |-> "summary",
                  summary |-> generate_summary_report(
                                 "1a2b3c4d", input.results.network_name,
                                 <<"10.0.0.0/24">>,
                                 input.results.phase1_results,
                                 input.results.phase2_results),
                  points |-> <<>>]
    /\ UNCHANGED <<proc, store, srv_config, lockfile, results, history, sink,
                   ledger_vars, manager_vars, service_vars, input>>

\* send_to_influxdb: _convert_to_influx_points on the summary.
ConvertToInfluxPoints ==
    /\ output.kind = "summary"
    /\ output' = [output EXCEPT !.kind = "points",
                                !.points = convert_to_influx_points(output.summary)]
    /\ UNCHANGED <<proc, store, srv_config, lockfile, results, history, sink,
                   ledger_vars, manager_vars, service_vars, input>>

EncoderInit ==
    /\ input \in {[kind |-> "scan_results", results |-> r] : r \in ScanResults}
    /\ output = NoOutput
    /\ RunAside
    /\ LedgerAside
    /\ ManagerAside

EncoderNext ==
    \/ GenerateSummaryReport
    \/ ConvertToInfluxPoints

EncoderSpec == EncoderInit /\ [][EncoderNext]_vars

\* ------------------------------------------------------------- detail commands
\* scan_options["phase2"]["command"] as create_default_config writes it,
\* "nmap -sCV -p{ports}": its words, each a text.
Placeholder == "{ports}"
phase2_cmd_template == <<<<"nmap">>, <<"-sCV">>, <<"-p", Placeholder>>>>

\* map(str, ports)
RECURSIVE str_each(_)
str_each(ports) ==
    IF ports = <<>> THEN <<>>
    ELSE <<<<ToString(Head(ports))>>>> \o str_each(Tail(ports))

\* Variant: the first port alone.
ports_str_first(ports) == <<ToString(Head(ports))>>

\* ",".join(map(str, ports))
ports_str(ports) == join(Comma, str_each(ports))

\* word.replace("{ports}", ports_str)
RECURSIVE replace(_, _, _)
replace(word, old, new) ==
    IF word = <<>> THEN <<>>
    ELSE (IF Head(word) = old THEN new ELSE <<Head(word)>>)
         \o replace(Tail(word), old, new)

\* cmd = phase2_cmd.split() + ["-oX", xml_file, ip]: the port list has no
\* white space, so the words are the template's.
phase2_command(template, ip, ports) ==
    [w \in DOMAIN template |-> replace(template[w], Placeholder, ports_str(ports))]
    \o <<<<"-oX">>, <<"phase2_", ToString(ip), ".xml">>, <<ToString(ip)>>>>

\* run_phase2's commands, one per host of phase 1's result.
BuildPhase2Commands ==
    /\ output.kind = "phase1_results"
    /\ output' = [kind |-> "phase2_commands",
                  value |-> output.value,
                  cmd |-> [ip \in DOMAIN output.value |->
                              phase2_command(phase2_cmd_template, ip,
                                             output.value[ip])]]
    /\ UNCHANGED <<proc, store, srv_config, lockfile, results, history, sink,
                   ledger_vars, manager_vars, service_vars, input>>

CommandNext ==
    \/ ParsePhase1
    \/ BuildPhase2Commands

CommandSpec == DiscoveryInit /\ [][CommandNext]_vars

\* ------------------------------------------------------------- a run to its end
\* One step of process p's advanced_scan.py, whatever nmap, the files and
\* the sink hand back.
RunStep(p) ==
    \/ AdvMain(p)
    \/ Validate(p)
    \/ GetLockOpen(p)
    \/ GetLockFlock(p)
    \/ UpdateScanInfo(p)
    \/ Phase1Start(p)
    \/ \E outcome \in Phase1Outcomes, discovered \in Discoveries :
          Phase1Finish(p, outcome, discovered)
    \/ Phase2Next(p)
    \/ \E outcome \in Phase2Outcomes : Phase2Finish(p, outcome)
    \/ \E outcome \in IoOutcomes : SaveResults(p, outcome)
    \/ \E outcome \in IoOutcomes : UpdateHistory(p, outcome)
    \/ \E enabled \in BOOLEAN, outcome \in PushOutcomes :
          SendInflux(p, enabled, outcome)
    \/ Return(p)
    \/ MainExit(p)

TerminationInit ==
    /\ LedgerAside
    /\ ManagerAside
    /\ CodecAside
    /\ RunAside

\* One run from the command line, on a valid or an invalid CIDR.
TerminationNext ==
    \/ \E cidr \in CidrArgs :
          /\ \A q \in Procs : proc[q].kind = "none"
          /\ CommandLine(None, cidr)
    \/ \E p \in Procs : RunStep(p)

\* The process runs on: subprocess.run carries timeout=, requests.post
\* carries timeout=30, get_lock does not wait, and everything else is
\* local computation and file access, so a step that can be taken is taken.
TerminationSpec ==
    /\ TerminationInit
    /\ [][TerminationNext]_vars
    /\ \A p \in Procs : WF_vars(RunStep(p))

\* ------------------------------------------------------------- a request to its run
\* One POST /advanced-scan on an idle deployment, with include_topology as
\* the body gives it or left to its default (True), and the process it
\* starts, which runs on as in TerminationSpec.
TriggerNext ==
    \/ \E name \in Names \cup {None}, cidr \in CidrArgs \cup {None},
          include_topology \in BOOLEAN :
          /\ \A q \in Procs : proc[q].kind = "none"
          /\ HandleAdvancedScan(name, cidr, include_topology)
          /\ Respond("/advanced-scan",
                     advanced_scan_status(srv_config, name, cidr))
    \/ \E p \in Procs : RunStep(p)

TriggerSpec ==
    /\ Init
    /\ [][TriggerNext]_vars
    /\ \A p \in Procs : WF_vars(RunStep(p))

\* ------------------------------------------------------------- claims
Adv(p) == proc[p].kind = "advanced"
Range(seq) == {seq[i] : i \in DOMAIN seq}
HasIn(events, e) == \E i \in DOMAIN events : events[i] = e

\* Processes holding the flock on a path.
LockHolders(path) ==
    {p \in Procs : proc[p].lock_fd = "locked" /\ lock_path(proc[p].kind) = path}

\* C1: lock exclusivity.  At most one process holds the lock of a path at any
\* moment; an acquire attempt made while another process holds that lock
\* ends without the lock (busy), and one made while nobody holds it succeeds.
C1_LockExclusive ==
    /\ [](\A path \in LockPaths : Cardinality(LockHolders(path)) <= 1)
    /\ [][\A p \in Procs :
            (proc[p].pc = "flock" /\ proc'[p].pc # "flock") =>
                LET path == lock_path(proc[p].kind)
                    held == LockHolders(path) \ {p} # {}
                IN  /\ held => /\ proc'[p].lock_fd # "locked"
                               /\ Adv(p) => /\ proc'[p].pc = "raised"
                                            /\ proc'[p].outcome = "RuntimeError"
                               /\ ~Adv(p) => proc'[p].pc = "exited"
                    /\ ~held => /\ proc'[p].lock_fd = "locked"
                                /\ proc'[p].pc \notin {"raised", "exited"}]_vars

\* C1 witness: one advanced run holds the lock while another was turned away.
C1_Witness ==
    \E p, q \in Procs :
        /\ p # q /\ Adv(p) /\ Adv(q)
        /\ proc[p].lock_fd = "locked"
        /\ Has(q, "lock_busy") /\ proc[q].pc = "raised"

\* C2: partial-failure tolerance of phase 2.  No detail-scan failure ever
\* leaves run_phase2 as an exception; hosts are scanned one by one in
\* discovery order, and once the loop is over every phase-1 host has been
\* scanned and phase2_results holds exactly the hosts whose scan succeeded
\* and parsed to a non-empty detail.
C2_Phase2Tolerant ==
    \A p \in Procs : Adv(p) =>
        LET r == proc[p] IN
        /\ ~Has(p, "phase2_raised")
        /\ r.pc \in {"phase2", "phase2_running"} =>
              /\ Range(r.phase2_results) = r.ok_hosts
              /\ r.scanned = SubSeq(r.phase1_results, 1, Len(r.scanned))
        /\ r.pc \in {"save", "history", "influx", "finish"} =>
              /\ r.scanned = r.phase1_results
              /\ Range(r.phase2_results) = r.ok_hosts
              /\ Len(r.phase2_results) = Cardinality(r.ok_hosts)

\* C2 witness: a run about to return its summary after one of at least two
\* discovered hosts failed its detail scan.
C2_Witness ==
    \E p \in Procs :
        /\ Adv(p) /\ proc[p].pc = "finish"
        /\ Len(proc[p].phase1_results) >= 2
        /\ Len(proc[p].phase2_results) = Len(proc[p].phase1_results) - 1

\* C3: a run_full_scan that has returned or raised, and the process after
\* it, holds no lock.
C3_LockReleased ==
    \A p \in Procs :
        (Adv(p) /\ proc[p].pc \in {"returned", "raised", "exited"}) =>
            proc[p].lock_fd # "locked"

\* C3 witness: a run that raised after it had acquired the lock.
C3_Witness ==
    \E p \in Procs :
        /\ Adv(p) /\ proc[p].pc = "raised"
        /\ Has(p, "lock_acquired") /\ Has(p, "save_failed")

\* C4: a failed phase 1 is fatal.  The run has raised, started no detail
\* scan, built no summary, written no results file, appended no history
\* entry, pushed nothing, and holds no lock.
C4_Phase1Fatal ==
    \A p \in Procs : (Adv(p) /\ Has(p, "phase1_failed")) =>
        /\ proc[p].pc = "raised"
        /\ proc[p].outcome \in {"TimeoutExpired", "CalledProcessError", "Exception"}
        /\ ~Has(p, "phase2_started") /\ ~Has(p, "summary")
        /\ ~Has(p, "results_written") /\ ~Has(p, "history_appended")
        /\ ~Has(p, "pushed")
        /\ scan_id_of(p) \notin results
        /\ scan_id_of(p) \notin Range(history)
        /\ scan_id_of(p) \notin sink
        /\ proc[p].lock_fd # "locked"

\* C4 witness: a run ended by a phase-1 timeout.
C4_Witness ==
    \E p \in Procs :
        /\ Adv(p) /\ Has(p, "phase1_failed")
        /\ proc[p].outcome = "TimeoutExpired"

\* Processes whose external scan tool is running right now.
ScansInFlight ==
    {p \in Procs : proc[p].pc \in {"phase1_running", "phase2_running",
                                   "nmap_running"}}

\* C5: at most one scan is in flight in the deployment, whatever the
\* control surface was asked to start.
C5_SingleFlight == Cardinality(ScansInFlight) <= 1

\* C6: a run whose target validation failed has raised ValueError without
\* opening the lock file, touching the registry or starting phase 1, and
\* the step that fails validation changes no lock file and no registry; a
\* process started without any target ends before it builds a scanner.
C6_InvalidTargetNoLock ==
    /\ [](\A p \in Procs : Adv(p) =>
            /\ Has(p, "target_invalid") =>
                  /\ proc[p].pc = "raised" /\ proc[p].outcome = "ValueError"
                  /\ proc[p].lock_fd = "none"
                  /\ ~Has(p, "lock_opened") /\ ~Has(p, "lock_acquired")
                  /\ ~Has(p, "registry_updated") /\ ~Has(p, "phase1_started")
            /\ Has(p, "no_target") =>
                  /\ proc[p].pc = "exited" /\ proc[p].lock_fd = "none")
    /\ [][\A p \in Procs :
            (Adv(p) /\ proc[p].pc = "validate" /\ proc'[p].pc = "raised") =>
                UNCHANGED <<store, srv_config, lockfile>>]_vars

\* C6 witness: a run rejected by target validation.
C6_Witness ==
    \E p \in Procs :
        /\ Adv(p) /\ Has(p, "target_invalid") /\ proc[p].pc = "raised"

\* A named target that the registry this process loaded does not allow.
NameUnusable(p) ==
    /\ proc[p].network_name # None
    /\ \/ ~has_network(proc[p].config, proc[p].network_name)
       \/ ~proc[p].config.networks[proc[p].network_name].enabled

\* C7: no run given a network name that is absent or disabled gets past
\* target validation (CIDR given with it or not): it never takes the lock,
\* never updates the entry's scan counters and never reaches phase 1.
C7_NamedTargetChecked ==
    \A p \in Procs :
        (Adv(p) /\ NameUnusable(p)) =>
            proc[p].pc \in {"spawned", "validate"}

C9_PublishBestEffort ==
    \A p \in Procs :
        (Adv(p) /\ (Has(p, "history_failed") \/ Has(p, "push_failed"))) =>
            /\ proc[p].pc \in {"influx", "finish", "returned"}
            /\ proc[p].pc = "returned" => proc[p].outcome = "summary"
            /\ Has(p, "results_written")
            /\ scan_id_of(p) \in results

\* C9 witness: a run that returned its summary although both the history
\* append and the push failed.
C9_Witness ==
    \E p \in Procs :
        /\ Adv(p) /\ proc[p].pc = "returned" /\ proc[p].outcome = "summary"
        /\ Has(p, "history_failed") /\ Has(p, "push_failed")

\* C10: a failure to write the results file is recovered: the run does not
\* raise, and goes on to the history append and the sink push.
C10_SaveFailureRecovered ==
    \A p \in Procs :
        (Adv(p) /\ Has(p, "save_failed")) =>
            /\ proc[p].pc \in {"history", "influx", "finish", "returned"}
            /\ proc[p].outcome \in {"none", "summary"}

\* ------------------------------------------------------------- claims: history
Min(a, b) == IF a <= b THEN a ELSE b

\* C11: history ring bound.  Whenever the ledger file holds a list, after N
\* written appends it has min(N, max_history) entries: the most recently
\* appended ones, in append order.
C11_HistoryRing ==
    history_file.state = "json" =>
        LET n == Len(appended)
            k == Min(n, max_history)
        IN  /\ Len(history_file.value) = k
            /\ history_file.value = SubSeq(appended, n - k + 1, n)

\* C12: a corrupt ledger is healed by the next append.  Once a run that
\* found the file unparseable is through update_scan_history, the file is a
\* valid list holding exactly that run's entry.
C12_CorruptHealed ==
    (appender.pc = "idle" /\ appender.found \in {"garbage", "partial"}) =>
        history_file = json_file(<<appender.scan_id>>)

\* C13: the history write-back is atomic for readers.  GET /scan-history
\* never finds the file as an append has it between open(path, "w") and the
\* end of json.dump: empty or partly written.
C13_AtomicForReaders == reader.saw \notin {"empty", "partial"}

\* ------------------------------------------------------------- claims: registry
\* C14: registry persistence is atomic for readers.  No scanner process
\* that loads the registry file while the control surface saves it finds
\* anything but a complete document, so none falls back to the default
\* structure and writes it over the registry.
C14_LoadSeesComplete ==
    \A p \in Procs : ~Has(p, "registry_defaulted")

\* The documents one registry operation of the control surface makes of a
\* stored registry.
OneOperationOn(config) ==
    {add_network(config, n, c)[1] : n \in Names, c \in AddCidrs}
    \cup {remove_network(config, n)[1] : n \in Names}
    \cup {enable_network(config, n, e)[1] : n \in Names, e \in BOOLEAN}

\* C15: no lost registry updates.  A run recording its start rewrites the
\* stored registry into exactly that registry with the entry's last_scan
\* and scan_count updated, and the document the control surface sets out
\* to save is the stored registry with its one operation applied: no write
\* carries a stale copy over what the other process persisted.
C15_NoLostUpdate ==
    [][/\ \A p \in Procs :
            (IsAdv(p, "update_info") /\ proc'[p].pc = "phase1"
                /\ store.state = "json" /\ store' # store)
                => store' = json_file(update_network_scan_info(
                                         store.value, proc[p].network_name)[1])
       /\ (srv_save = "none" /\ srv_save' = "open" /\ store.state = "json")
            => srv_config' \in OneOperationOn(store.value)]_vars

\* A call was just made on the ConfigManager: ret' tells which.
Called(op) == ret'.seq = ret.seq + 1 /\ ret'.op = op

\* A text that is an IPv4 address, alone or with a prefix length up to 32.
ValidCidrText(cidr) == written(cidr).address /\ written(cidr).prefixlen <= 32

\* A text in canonical form: address/prefixlen with no host bit set.
CanonicalCidrText(cidr) ==
    /\ ValidCidrText(cidr)
    /\ written(cidr).slash
    /\ written(cidr).host % (2 ^ (32 - written(cidr).prefixlen)) = 0

\* C16: registry auto-healing.  Building a ConfigManager never fails, and
\* one built from a registry file that is missing, unparseable or without
\* its sections holds the fresh default structure, also when the default
\* could not be written back.
C16_LoadHeals ==
    /\ cm.state # "raised"
    /\ (cm.state = "ready" /\ ret.seq = 0) =>
          /\ has_sections(cm.config)
          /\ cm.loaded # "document" => cm.config = create_default_config

\* C17: add then get.  On a registry that has its networks section,
\* add_network with a valid CIDR text returns True when the store can be
\* written, and get_network then returns, written or not, an entry whose
\* cidr is canonical, has the prefix length of the text and contains its
\* address, with enabled true, scan_count 0 and last_scan null.
C17_AddThenGet ==
    [][(Called("add_network") /\ ValidCidrText(ret'.arg)
            /\ has_sections(cm.config)) =>
        /\ ret'.writable => ret'.value = TRUE
        /\ has_network(cm'.config, ret'.name)
        /\ LET got == get_network(cm'.config, ret'.name)
               net == written(got.cidr)
               arg == written(ret'.arg)
           IN  /\ CanonicalCidrText(got.cidr)
               /\ net.prefixlen = arg.prefixlen
               /\ net.host <= arg.host
               /\ arg.host < net.host + 2 ^ (32 - net.prefixlen)
               /\ got.enabled = TRUE
               /\ got.scan_count = 0
               /\ got.last_scan = "null"]_vars

\* C17 witness: an address with host bits set was added and is stored as
\* its network.
C17_Witness ==
    /\ ret.op = "add_network"
    /\ ret.arg = "10.0.0.5/30"
    /\ ret.value = TRUE
    /\ get_network(cm.config, ret.name).cidr = "10.0.0.4/30"

\* C18: add_network with an invalid CIDR text returns False and changes
\* neither the in-memory registry (no entry appears, an existing entry
\* keeps every field) nor the stored one.
C18_InvalidAddNoEffect ==
    [][(Called("add_network") /\ ~ValidCidrText(ret'.arg)) =>
        /\ ret'.value = FALSE
        /\ cm'.config = cm.config
        /\ store' = store]_vars

\* C18 witness: an invalid text was refused for a name that has an entry
\* with a scan recorded in it.
C18_Witness ==
    /\ ret.op = "add_network"
    /\ ret.arg = "10.0.0.0/33"
    /\ ret.value = FALSE
    /\ has_network(cm.config, ret.name)
    /\ get_network(cm.config, ret.name).scan_count = 1

\* C19: every network entry of the registry, in memory and as stored, has a
\* validated CIDR in canonical form, whatever registry operations were
\* called.
C19_CidrCanonical ==
    /\ (cm.state = "ready" /\ has_sections(cm.config)) =>
          \A n \in DOMAIN cm.config.networks :
              CanonicalCidrText(cm.config.networks[n].cidr)
    /\ (store.state = "json" /\ has_sections(store.value)) =>
          \A n \in DOMAIN store.value.networks :
              CanonicalCidrText(store.value.networks[n].cidr)

\* C20: update_network_scan_info(name) on an existing entry adds exactly 1
\* to its scan_count and sets its last_scan, and changes no other field, no
\* other entry and not the set of names; on an absent name it changes
\* neither the in-memory registry nor the stored one.
C20_ScanInfoFrame ==
    [][Called("update_network_scan_info") =>
        LET name == ret'.name
            old == cm.config
            new == cm'.config
        IN  IF has_network(old, name)
            THEN /\ has_sections(new)
                 /\ DOMAIN new.networks = DOMAIN old.networks
                 /\ new.networks[name].scan_count =
                        old.networks[name].scan_count + 1
                 /\ new.networks[name].last_scan = "set"
                 /\ new.networks[name].cidr = old.networks[name].cidr
                 /\ new.networks[name].enabled = old.networks[name].enabled
                 /\ \A other \in DOMAIN old.networks \ {name} :
                        new.networks[other] = old.networks[other]
            ELSE /\ new = old
                 /\ store' = store]_vars

\* C20 witness: a scan was recorded for one of two registered networks.
C20_Witness ==
    /\ ret.op = "update_network_scan_info"
    /\ has_network(cm.config, ret.name)
    /\ get_network(cm.config, ret.name).scan_count = 1
    /\ \E other \in RegNames \ {ret.name} : has_network(cm.config, other)

\* ------------------------------------------------------------- claims: the run
\* How often event e is in a record of events, and whether some a comes
\* before some b in it.
Count(events, e) == Cardinality({i \in DOMAIN events : events[i] = e})
Before(events, a, b) ==
    \E i, j \in DOMAIN events : i < j /\ events[i] = a /\ events[j] = b

\* The positions of run_full_scan after update_network_scan_info.
PastUpdateInfo ==
    {"phase1", "phase1_running", "phase2", "phase2_running", "save",
     "history", "influx", "finish"}

\* A run whose network name is an entry of the registry it loaded.
NameBased(p) ==
    /\ proc[p].network_name # None
    /\ has_network(proc[p].config, proc[p].network_name)

\* C21: the scan-started record.  A name-based run records its start in the
\* registry exactly once (scan_count + 1, last_scan set, and the store
\* rewritten), after it acquired the lock and before phase 1 starts; a
\* failing phase 1 leaves the record in place.  A run started from a CIDR
\* alone makes no record and no step of it changes the stored registry.
C21_StartRecordedOnce ==
    /\ [](\A p \in Procs : Adv(p) =>
            LET ev == proc[p].events IN
            /\ Count(ev, "registry_updated") <= 1
            /\ Has(p, "registry_updated") =>
                  /\ Before(ev, "lock_acquired", "registry_updated")
                  /\ ~Before(ev, "phase1_started", "registry_updated")
            /\ (NameBased(p) /\ proc[p].pc \in PastUpdateInfo) =>
                  Has(p, "registry_updated")
            /\ (proc[p].network_name = None /\ proc[p].pc \in PastUpdateInfo) =>
                  ~Has(p, "registry_updated"))
    /\ [][\A p \in Procs :
            /\ (IsAdv(p, "update_info") /\ proc'[p].pc # "update_info"
                    /\ NameBased(p)) =>
                  LET name == proc[p].network_name
                      old == proc[p].config.networks[name]
                  IN  /\ store'.state = "json"
                      /\ store'.value = proc'[p].config
                      /\ store'.value.networks[name] =
                            [old EXCEPT !.scan_count = @ + 1,
                                        !.last_scan = "set"]
            /\ (IsAdv(p, "phase1_running") /\ proc'[p].pc = "raised") =>
                  /\ store' = store
                  /\ HasIn(proc'[p].events, "registry_updated")
                        = HasIn(proc[p].events, "registry_updated")
            /\ (Adv(p) /\ proc[p].network_name = None /\ proc'[p] # proc[p]) =>
                  store' = store]_vars

\* C21 witness: a named run whose phase 1 failed, with its start counted in
\* the stored registry.
C21_Witness ==
    \E p \in Procs :
        /\ Adv(p) /\ proc[p].pc = "raised" /\ Has(p, "phase1_failed")
        /\ Has(p, "registry_updated")
        /\ has_network(store.value, "lan")
        /\ store.value.networks["lan"].scan_count = 1

\* ------------------------------------------------------------- claims: responses
\* The processes a step starts.
Spawned == {p \in Procs : proc[p].kind = "none" /\ proc'[p].kind # "none"}

\* A POST /advanced-scan was just answered.
AdvancedScanAnswered ==
    /\ answer'.route = "/advanced-scan"
    /\ answer' # answer \/ Spawned # {}

\* C22: the acknowledgement of POST /advanced-scan tells accepted from
\* rejected.  A request is answered 202 only when no run holds the
\* orchestration lock and its target is valid, registered and enabled, and
\* then exactly one process is started for it; any other request is answered
\* 400 and starts no process.
C22_AckDistinguishes ==
    [][AdvancedScanAnswered =>
        /\ answer'.status \in {202, 400}
        /\ answer'.status = 400 => Spawned = {}
        /\ answer'.status = 202 =>
              /\ LockHolders(AdvancedLockPath) = {}
              /\ Cardinality(Spawned) = 1
              /\ \A p \in Spawned :
                    /\ proc'[p].kind = "advanced"
                    /\ validate_target(srv_config, proc'[p].network_name,
                                       proc'[p].network_cidr)]_vars

\* The live processes that hold the flock on a path.
LiveHolders(path) == {p \in LockHolders(path) : alive(p)}

\* C23: GET /status tells the true lock state.  For a lock file written
\* within the last hour, the entry is "active_lock" when a live run holds
\* the lock and "stale_lock" when no run holds it.
C23_StatusTrue ==
    [][(answer'.route = "/status" /\ answer' # answer) =>
        \A path \in LockPaths \ answer'.aged :
            /\ LiveHolders(path) # {} => answer'.locks[path] = "active_lock"
            /\ (lockfile[path].exists /\ LockHolders(path) = {}) =>
                  answer'.locks[path] = "stale_lock"]_vars

\* ------------------------------------------------------------- claims: parsers
\* The address a reader of the document resolves for a host element: that
\* of its first ipv4 or ipv6 address element, 0 when it has none.
ResolvedIp(h) ==
    LET usable == {i \in DOMAIN h.address :
                      h.address[i].addrtype \in {"ipv4", "ipv6"}}
    IN  IF usable = {} THEN 0
        ELSE h.address[CHOOSE i \in usable : \A j \in usable : i <= j].addr

\* The port elements of a host element that are in state open.
OpenPortElements(h) ==
    {i \in DOMAIN h.ports.port : h.ports.port[i].state = "open"}

\* The host elements parse_discovery has to report.
Reportable(host) ==
    {i \in DOMAIN host :
        ResolvedIp(host[i]) # 0 /\ OpenPortElements(host[i]) # {}}

Occurrences(list, x) == Cardinality({i \in DOMAIN list : list[i] = x})

\* C24: parse_discovery.  For a well-formed document the result has an
\* entry for exactly the addresses of the hosts that have an ipv4/ipv6
\* address and an open port, none for a host without open ports, and each
\* entry is that host's open ports (of its last element, should an address
\* come twice), every one of them, in ascending order.
C24_ParseDiscovery ==
    (output.kind = "phase1_results" /\ input.doc.wellformed) =>
        LET host == input.doc.host
            res == output.value
        IN  /\ DOMAIN res = {ResolvedIp(host[i]) : i \in Reportable(host)}
            /\ \A ip \in DOMAIN res :
                  LET of_ip == {i \in Reportable(host) : ResolvedIp(host[i]) = ip}
                      last == CHOOSE i \in of_ip : \A j \in of_ip : j <= i
                      port == host[last].ports.port
                  IN  /\ res[ip] # <<>>
                      /\ \A j, k \in DOMAIN res[ip] :
                            j < k => res[ip][j] <= res[ip][k]
                      /\ Len(res[ip]) = Cardinality(OpenPortElements(host[last]))
                      /\ \A i \in OpenPortElements(host[last]) :
                            Occurrences(res[ip], port[i].portid) =
                               Cardinality({e \in OpenPortElements(host[last]) :
                                               port[e].portid = port[i].portid})

\* C24 witness: of two hosts the one without an open port has no entry, and
\* the other's ports 80, 22, 443 come out as 22, 80, 443.
C24_Witness ==
    /\ output.kind = "phase1_results"
    /\ input.doc.wellformed
    /\ Len(input.doc.host) = 2
    /\ \E i \in 1..2 : /\ ResolvedIp(input.doc.host[i]) = 2
                       /\ input.doc.host[i].ports.present
                       /\ OpenPortElements(input.doc.host[i]) = {}
    /\ DOMAIN output.value = {1}
    /\ output.value[1] = <<22, 80, 443>>

\* C25: no port number occurs twice in a port list parse_discovery
\* returns.
C25_PortsDeduplicated ==
    output.kind = "phase1_results" =>
        \A ip \in DOMAIN output.value :
            \A j, k \in DOMAIN output.value[ip] :
                j # k => output.value[ip][j] # output.value[ip][k]

\* What the detail of one host element is: its address, its host name, its
\* ports by number and protocol, its named OS guesses.
ComesFrom(detail, h) ==
    /\ ~detail.empty
    /\ detail.ip = ResolvedIp(h)
    /\ detail.hostname = h.hostname
    /\ DOMAIN detail.ports =
          {<<h.ports.port[i].portid, h.ports.port[i].protocol>> :
              i \in DOMAIN h.ports.port}
    /\ \A i \in DOMAIN h.ports.port :
          LET e == h.ports.port[i] IN
          detail.ports[<<e.portid, e.protocol>>] =
             [state |-> e.state, service |-> e.service]
    /\ DOMAIN detail.os = {h.os[i].name : i \in DOMAIN h.os} \ {""}
    /\ \A i \in DOMAIN h.os :
          h.os[i].name # "" => detail.os[h.os[i].name] = h.os[i].accuracy

\* The host elements that have an ipv4/ipv6 address.
Addressed(host) == {i \in DOMAIN host : ResolvedIp(host[i]) # 0}

\* C26 as stated: the result of parse_detail on a document with several
\* host elements is the detail of the last host element in document order
\* (or empty, when that element has no address): nothing of an earlier
\* element is in it.
C26_LastHostOnly ==
    (output.kind = "host_data" /\ input.doc.wellformed
        /\ Len(input.doc.host) >= 2) =>
        \/ output.value = EmptyDetail
        \/ ComesFrom(output.value, input.doc.host[Len(input.doc.host)])

\* C26 amended: the result is the detail of the last host element that has
\* an ipv4/ipv6 address (elements without one are passed over, wherever
\* they stand), and the empty detail when no element has one.
C26_LastAddressedHostOnly ==
    (output.kind = "host_data" /\ input.doc.wellformed) =>
        LET host == input.doc.host IN
        IF Addressed(host) = {}
        THEN output.value = EmptyDetail
        ELSE ComesFrom(output.value,
                host[CHOOSE i \in Addressed(host) :
                        \A j \in Addressed(host) : j <= i])

\* C26 witness: two host elements with different addresses, host names and
\* ports; the result is the second one's.
C26_Witness ==
    /\ output.kind = "host_data"
    /\ input.doc.wellformed
    /\ Len(input.doc.host) = 2
    /\ ResolvedIp(input.doc.host[1]) = 1
    /\ ResolvedIp(input.doc.host[2]) = 2
    /\ input.doc.host[1].hostname = <<"alpha">>
    /\ input.doc.host[2].hostname = <<>>
    /\ output.value.ip = 2
    /\ output.value.hostname = <<>>
    /\ DOMAIN output.value.ports = {<<80, "tcp">>, <<443, "tcp">>}

\* ------------------------------------------------------------- claims: points
IsPrefix(prefix, text) ==
    /\ Len(prefix) <= Len(text)
    /\ SubSeq(text, 1, Len(prefix)) = prefix

\* A tag value with every backslash, space, comma and equals sign preceded
\* by a backslash, each character escaped once.
RECURSIVE EscapedTag(_)
EscapedTag(text) ==
    IF text = <<>> THEN <<>>
    ELSE (IF Head(text) \in {Backslash, Space, Comma, Equals}
          THEN <<Backslash, Head(text)>> ELSE <<Head(text)>>)
         \o EscapedTag(Tail(text))

\* The host/port/protocol triples of phase2_detailed.
Triples(detailed) ==
    UNION {{<<ip, key>> : key \in DOMAIN detailed[ip].ports} :
              ip \in DOMAIN detailed}

ServiceOf(port_info) ==
    IF port_info.service.present THEN port_info.service.name ELSE <<"unknown">>

\* The measurement and tag set of the summary point, escaped, up to the
\* space that ends it.
EscapedSummaryTags(summary) ==
    join(Comma,
         <<<<"advanced_nmap_scan_summary">>,
           key_value("scan_id", EscapedTag(<<summary.scan_id>>)),
           key_value("network_name",
                     EscapedTag(IF summary.network.name # <<>>
                                THEN summary.network.name ELSE <<"manual">>)),
           key_value("network_cidr", EscapedTag(summary.network.cidr))>>)
    \o <<Space>>

\* The measurement and tag set of one ports point, escaped.
EscapedPortsTags(summary, ip, key) ==
    join(Comma,
         <<<<"advanced_nmap_scan_ports">>,
           key_value("scan_id", EscapedTag(<<summary.scan_id>>)),
           key_value("ip", EscapedTag(<<ToString(ip)>>)),
           key_value("port", EscapedTag(<<ToString(key[1])>>)),
           key_value("protocol", EscapedTag(<<key[2]>>)),
           key_value("service",
                     EscapedTag(ServiceOf(
                        summary.results.phase2_detailed[ip].ports[key])))>>)
    \o <<Space>>

\* C27: in every point the encoder emits, the tag values (network name,
\* CIDR, ip, port, protocol, service name) carry a backslash before each
\* backslash, space, comma and equals sign, every character escaped once:
\* the summary point starts with the escaped tag set of the summary, and
\* every host/port/protocol triple has a point that starts with its own.
C27_TagsEscaped ==
    output.kind = "points" =>
        /\ IsPrefix(EscapedSummaryTags(output.summary), output.points[1])
        /\ \A t \in Triples(output.summary.results.phase2_detailed) :
              \E i \in 2..Len(output.points) :
                 IsPrefix(EscapedPortsTags(output.summary, t[1], t[2]),
                          output.points[i])

\* The line-protocol grammar, read back.  The index of the first sep of
\* text at or after i that no backslash escapes and, where quoted strings
\* count, that is outside of them; 0 when there is none.
RECURSIVE FirstBreak(_, _, _, _, _)
FirstBreak(text, i, sep, quoted, in_string) ==
    IF i > Len(text) THEN 0
    ELSE IF text[i] = Backslash /\ i < Len(text)
         THEN FirstBreak(text, i + 2, sep, quoted, in_string)
    ELSE IF quoted /\ text[i] = Quote
         THEN FirstBreak(text, i + 1, sep, quoted, ~in_string)
    ELSE IF text[i] = sep /\ ~in_string THEN i
    ELSE FirstBreak(text, i + 1, sep, quoted, in_string)

\* The pieces of text between such separators.
RECURSIVE SplitAt(_, _, _)
SplitAt(text, sep, quoted) ==
    LET at == FirstBreak(text, 1, sep, quoted, FALSE) IN
    IF at = 0 THEN <<text>>
    ELSE <<SubSeq(text, 1, at - 1)>>
         \o SplitAt(SubSeq(text, at + 1, Len(text)), sep, quoted)

\* A text with the backslash taken off every escaped character of a set.
RECURSIVE Unescaped(_, _)
Unescaped(text, escapable) ==
    IF text = <<>> THEN <<>>
    ELSE IF Head(text) = Backslash /\ Len(text) >= 2 /\ text[2] \in escapable
         THEN <<text[2]>> \o Unescaped(Tail(Tail(text)), escapable)
    ELSE <<Head(text)>> \o Unescaped(Tail(text), escapable)

\* key=value with one separating equals sign and neither side empty.
IsPair(piece) ==
    LET at == FirstBreak(piece, 1, Equals, FALSE, FALSE) IN
    /\ at > 1
    /\ at < Len(piece)
    /\ FirstBreak(piece, at + 1, Equals, TRUE, FALSE) = 0

PairKey(piece) ==
    SubSeq(piece, 1, FirstBreak(piece, 1, Equals, FALSE, FALSE) - 1)
PairValue(piece) ==
    SubSeq(piece, FirstBreak(piece, 1, Equals, FALSE, FALSE) + 1, Len(piece))

\* A field value: a string between two quotes with every quote inside
\* escaped, or a number.
IsFieldValue(value) ==
    IF Head(value) = Quote
    THEN /\ Len(value) >= 2
         /\ FirstBreak(value, 2, Quote, FALSE, FALSE) = Len(value)
    ELSE \A i \in 1..Len(value) : value[i] \notin SpecialSymbols

\* The three sections of a point: measurement and tags, fields, timestamp.
TagSection(point) ==
    SubSeq(point, 1, FirstBreak(point, 1, Space, FALSE, FALSE) - 1)
AfterTags(point) ==
    SubSeq(point, FirstBreak(point, 1, Space, FALSE, FALSE) + 1, Len(point))
FieldSection(point) ==
    SubSeq(AfterTags(point), 1,
           FirstBreak(AfterTags(point), 1, Space, TRUE, FALSE) - 1)
Timestamp(point) ==
    SubSeq(AfterTags(point),
           FirstBreak(AfterTags(point), 1, Space, TRUE, FALSE) + 1,
           Len(AfterTags(point)))

TagPieces(point) == Tail(SplitAt(TagSection(point), Comma, FALSE))
FieldPieces(point) == SplitAt(FieldSection(point), Comma, TRUE)

\* The point is a line of the grammar.
Parses(point) ==
    /\ FirstBreak(point, 1, Space, FALSE, FALSE) > 1
    /\ FirstBreak(AfterTags(point), 1, Space, TRUE, FALSE) > 1
    /\ Timestamp(point) = <<NowNs>>
    /\ Head(SplitAt(TagSection(point), Comma, FALSE)) # <<>>
    /\ \A i \in 1..Len(TagPieces(point)) : IsPair(TagPieces(point)[i])
    /\ \A i \in 1..Len(FieldPieces(point)) :
          /\ IsPair(FieldPieces(point)[i])
          /\ IsFieldValue(PairValue(FieldPieces(point)[i]))

MeasurementOf(point) ==
    Unescaped(Head(SplitAt(TagSection(point), Comma, FALSE)), {Comma, Space})

\* The value a parsed point has under a tag key: the set of them, one
\* element when the key occurs once.
TagValues(point, key) ==
    {Unescaped(PairValue(TagPieces(point)[i]),
               {Backslash, Space, Comma, Equals}) :
        i \in {j \in 1..Len(TagPieces(point)) :
                  PairKey(TagPieces(point)[j]) = <<key>>}}

StringFieldValues(point, key) ==
    {LET value == PairValue(FieldPieces(point)[i]) IN
     Unescaped(SubSeq(value, 2, Len(value) - 1), {Backslash, Quote}) :
        i \in {j \in 1..Len(FieldPieces(point)) :
                  PairKey(FieldPieces(point)[j]) = <<key>>}}

\* The point says one triple of phase2_detailed with its service and state.
SaysTriple(point, ip, key, port_info) ==
    /\ Parses(point)
    /\ MeasurementOf(point) = <<"advanced_nmap_scan_ports">>
    /\ TagValues(point, "ip") = {<<ToString(ip)>>}
    /\ TagValues(point, "port") = {<<ToString(key[1])>>}
    /\ TagValues(point, "protocol") = {<<key[2]>>}
    /\ TagValues(point, "service") = {ServiceOf(port_info)}
    /\ StringFieldValues(point, "state") = {<<port_info.state>>}

\* C28: the points the encoder emits, parsed with the line-protocol
\* grammar, are one summary point and exactly one ports point per
\* host/port/protocol triple of phase2_detailed, and that point gives back
\* the triple's ip, port, protocol, service and state.
C28_RoundTrip ==
    output.kind = "points" =>
        LET detailed == output.summary.results.phase2_detailed IN
        /\ Len(output.points) = 1 + Cardinality(Triples(detailed))
        /\ Parses(output.points[1])
        /\ MeasurementOf(output.points[1]) = <<"advanced_nmap_scan_summary">>
        /\ \A t \in Triples(detailed) :
              Cardinality({i \in 2..Len(output.points) :
                            SaysTriple(output.points[i], t[1], t[2],
                                       detailed[t[1]].ports[t[2]])}) = 1

\* The points of a summary whose texts hold none of the five characters do
\* read back.
C28_PlainReadsBack ==
    (/\ output.kind = "points"
     /\ input.results.network_name = <<"lan">>
     /\ \A ip \in DOMAIN input.results.phase2_results :
           input.results.phase2_results[ip].ports = KnownServices) =>
        LET detailed == output.summary.results.phase2_detailed IN
        /\ Len(output.points) = 1 + Cardinality(Triples(detailed))
        /\ Parses(output.points[1])
        /\ \A t \in Triples(detailed) :
              Cardinality({i \in 2..Len(output.points) :
                            SaysTriple(output.points[i], t[1], t[2],
                                       detailed[t[1]].ports[t[2]])}) = 1

\* ------------------------------------------------------------- claims: summary
\* The distinct non-empty service names over all ports of phase2_detailed.
DistinctServiceNames(detailed) ==
    {name \in {detailed[t[1]].ports[t[2]].service.name : t \in Triples(detailed)} :
        name # <<>>}

\* One element per open port phase 1 found.
DiscoveredPorts(phase1_results) ==
    UNION {{<<ip, i>> : i \in 1..Len(phase1_results[ip])} :
              ip \in DOMAIN phase1_results}

Summarized == output.kind \in {"summary", "points"}

CountsRight ==
    LET statistics == output.summary.statistics IN
    /\ statistics.phase1.hosts_with_open_ports
          = Cardinality(DOMAIN input.results.phase1_results)
    /\ statistics.phase1.total_open_ports
          = Cardinality(DiscoveredPorts(input.results.phase1_results))
    /\ statistics.phase2.hosts_analyzed
          = Cardinality(DOMAIN output.summary.results.phase2_detailed)

AfterPhase2 == {"save", "history", "influx", "finish"}

Elements(list) == {list[i] : i \in DOMAIN list}

\* The hosts of phase 1 whose detail document gives a detail.
Detailed(p) ==
    {ip \in Elements(proc[p].phase1_results) :
        ~parse_phase2_xml(input.phase2[ip]).empty}

\* Phase 1's document was not parseable: nothing found, no detail command,
\* and the run is over with an exception only when writing the results
\* file failed; once past the writes the results file is there, and the
\* history entry too unless its write failed.
Phase1Recovered(p) ==
    (~input.phase1.wellformed /\ Has(p, "phase1_done")) =>
        /\ ~Has(p, "phase2_started")
        /\ proc[p].pc \in {"phase2"} \cup AfterPhase2 =>
              /\ proc[p].phase1_results = <<>>
              /\ proc[p].phase2_results = <<>>
              /\ proc[p].scanned = <<>>
        /\ proc[p].pc = "raised" => Has(p, "save_failed")
        /\ proc[p].pc \in {"finish", "returned"} =>
              /\ Has(p, "summary")
              /\ scan_id_of(p) \in results
              /\ Has(p, "history_failed") \/ scan_id_of(p) \in Elements(history)

\* A host's detail document gave nothing: the loop went on over every
\* host, and the hosts of phase2_detailed are the others.
Phase2Recovered(p) ==
    (Has(p, "phase1_done") /\ proc[p].pc \in AfterPhase2) =>
        /\ proc[p].scanned = proc[p].phase1_results
        /\ Elements(proc[p].phase2_results) = Detailed(p)

\* Parsing takes the run one step on, never out.
ParseGoesOn(p) ==
    /\ (proc[p].pc = "phase1_running" /\ Has(p, "phase1_done")')
          => proc'[p].pc = "phase2"
    /\ (proc[p].pc = "phase2" /\ ~input.phase1.wellformed)
          => proc'[p].pc = "save"
    /\ proc[p].pc = "phase2_running" => proc'[p].pc = "phase2"
    /\ (proc[p].pc = "returned" /\ proc'[p].pc = "exited")
          => proc'[p].exit_code = 0

\* C30: a parse failure is recovered as no data and never aborts the run.
\* When the phase-1 document cannot be parsed, phase 1 yields the empty
\* mapping, phase 2 starts no command, and the run goes on to a summary of
\* no host that is written to the results directory and appended to the
\* history, and ends with code 0; when a host's phase-2 document cannot be
\* parsed, that host alone is missing from phase2_detailed.
C30_ParseFailureRecovered ==
    /\ [](\A p \in Procs : Phase1Recovered(p) /\ Phase2Recovered(p))
    /\ [][\A p \in Procs : ParseGoesOn(p)]_vars

\* A run whose discovery document was not parseable has returned its
\* summary, written and appended.
C30_Witness ==
    \E p \in Procs :
       /\ ~input.phase1.wellformed
       /\ proc[p].pc = "returned"
       /\ Has(p, "phase1_done")
       /\ Has(p, "summary")
       /\ scan_id_of(p) \in results
       /\ scan_id_of(p) \in Elements(history)

\* Two hosts found, the first one's detail document not parseable, the
\* second one's detail stored.
C30_OneHostMissing ==
    \E p \in Procs :
       /\ proc[p].pc = "finish"
       /\ Len(proc[p].phase1_results) = 2
       /\ ~input.phase2[proc[p].phase1_results[1]].wellformed
       /\ proc[p].phase2_results = <<proc[p].phase1_results[2]>>

\* ------------------------------------------------------------- claims: order of a run
\* The place of a step in run_full_scan; 0 for what is no step of a
\* successful run.
Rank(e) ==
    CASE e = "target_valid" -> 1
      [] e = "lock_opened" -> 2
      [] e = "lock_acquired" -> 3
      [] e = "registry_updated" -> 4
      [] e = "phase1_started" -> 5
      [] e = "phase1_done" -> 6
      [] e = "phase2_started" -> 7
      [] e = "summary" -> 8
      [] e = "results_written" -> 9
      [] e \in {"history_appended", "history_failed"} -> 10
      [] e \in {"pushed", "push_failed"} -> 11
      [] OTHER -> 0

InOrder(events) ==
    \A i, j \in DOMAIN events :
        (i < j /\ Rank(events[j]) # 0) =>
            /\ Rank(events[i]) # 0
            /\ Rank(events[i]) < Rank(events[j])

HoldsLock(p) ==
    /\ proc[p].lock_fd = "locked"
    /\ \A q \in Procs \ {p} :
          ~(proc[q].kind = "advanced" /\ proc[q].lock_fd = "locked")

\* C31: run ordering.  The steps of a run occur in the order target
\* validated, lock acquired, phase 1 run to completion, phase-2 scans,
\* summary aggregated, results file written, history appended, sink push
\* attempted, lock released, and a run that returned its summary has made
\* all of them; no phase-2 scan starts before phase 1 was completed and
\* parsed or after the summary was made, and the run holds the lock whenever
\* it is at a persistence or publishing step.
C31_RunOrdering ==
    \A p \in Procs :
       proc[p].kind = "advanced" =>
          /\ proc[p].pc # "exited" => InOrder(proc[p].events)
          /\ proc[p].pc \in {"finish", "returned"} =>
                /\ \A e \in {"target_valid", "lock_acquired", "phase1_started",
                             "phase1_done", "summary", "results_written"} :
                      Count(proc[p].events, e) = 1
                /\ Count(proc[p].events, "history_appended")
                      + Count(proc[p].events, "history_failed") = 1
          /\ proc[p].pc = "finish" => HoldsLock(p)
          /\ proc[p].pc = "returned" => proc[p].lock_fd = "none"
          /\ proc[p].pc = "phase2_running" =>
                /\ Has(p, "phase1_done")
                /\ Has(p, "phase2_started")
                /\ ~Has(p, "summary")
          /\ proc[p].scanned # <<>> => Has(p, "phase1_done")
          /\ proc[p].pc \in {"save", "history", "influx"} =>
                /\ HoldsLock(p)
                /\ Has(p, "summary")
          /\ (\/ Has(p, "results_written")
              \/ Has(p, "history_appended")
              \/ Has(p, "pushed")) =>
                Before(proc[p].events, "lock_acquired", "summary")

\* A run that scanned a host in detail and pushed has returned its summary.
C31_Witness ==
    \E p \in Procs :
       /\ proc[p].kind = "advanced"
       /\ proc[p].pc = "returned"
       /\ Has(p, "phase2_started")
       /\ Has(p, "history_appended")
       /\ Has(p, "pushed")
       /\ proc[p].lock_fd = "none"

\* C32: phase-2 scans are issued one at a time in discovery order.  The
\* hosts scanned so far are the first hosts of phase 1's result, in its
\* order and each once; while a detail scan runs it is that of the host
\* after the ones already finished or failed, and at the loop head every
\* scan started has ended; when the loop is over every discovered host was
\* scanned exactly once.
C32_OneAtATimeInOrder ==
    \A p \in Procs :
       proc[p].kind = "advanced" =>
          LET r == proc[p] IN
          /\ \A i, j \in DOMAIN r.scanned : i # j => r.scanned[i] # r.scanned[j]
          /\ Len(r.scanned) <= Len(r.phase1_results)
          /\ \A i \in DOMAIN r.scanned : r.scanned[i] = r.phase1_results[i]
          /\ r.pc = "phase2_running" =>
                /\ Len(r.scanned) = r.idx
                /\ r.idx \in DOMAIN r.phase1_results
          /\ r.pc = "phase2" => Len(r.scanned) = r.idx - 1
          /\ r.pc \in {"save", "history", "influx", "finish"} =>
                Len(r.scanned) = Len(r.phase1_results)

\* The second of two discovered hosts is being scanned after the first
\* one's scan failed.
C32_Witness ==
    \E p \in Procs :
       /\ proc[p].pc = "phase2_running"
       /\ Len(proc[p].phase1_results) = 2
       /\ proc[p].idx = 2
       /\ proc[p].scanned = proc[p].phase1_results
       /\ proc[p].ok_hosts = {}

\* ------------------------------------------------------------- claims: detail commands
\* The port numbers the discovery document reports open for an address.
OpenInDocument(ip) ==
    UNION {{input.doc.host[k].ports.port[i].portid :
               i \in {j \in DOMAIN input.doc.host[k].ports.port :
                         input.doc.host[k].ports.port[j].state = "open"}} :
           k \in {n \in DOMAIN input.doc.host :
                     first_ip(input.doc.host[n].address, 1) = ip}}

\* C33: for each discovered host the phase-2 command targets that host
\* only, and its {ports} placeholder is replaced by that host's phase-1
\* open ports, comma-joined in ascending order; no port that was found on
\* another host alone is in it.
C33_PortsOfThatHostOnly ==
    output.kind = "phase2_commands" =>
        \A ip \in DOMAIN output.value :
           LET cmd == output.cmd[ip]
               ports == output.value[ip]
           IN  /\ Len(cmd) = Len(phase2_cmd_template) + 3
               /\ cmd[Len(cmd)] = <<ToString(ip)>>
               /\ \A w \in 1..(Len(cmd) - 1), h \in Hosts :
                     cmd[w] # <<ToString(h)>>
               /\ \A w \in DOMAIN cmd : \A i \in DOMAIN cmd[w] :
                     cmd[w][i] # Placeholder
               /\ Head(cmd[3]) = "-p"
               /\ SplitAt(Tail(cmd[3]), Comma, FALSE)
                     = [i \in DOMAIN ports |-> <<ToString(ports[i])>>]
               /\ \A i, j \in DOMAIN ports : i < j => ports[i] <= ports[j]
               /\ \A i \in DOMAIN ports : ports[i] \in OpenInDocument(ip)

\* Two hosts with different open ports, one reported out of order: each
\* command has its own host's ports.
C33_Witness ==
    /\ output.kind = "phase2_commands"
    /\ DOMAIN output.value = {1, 2}
    /\ output.value[1] = <<22, 80, 443>>
    /\ output.value[2] = <<53, 53>>
    /\ output.cmd[1][3] = <<"-p", "22", ",", "80", ",", "443">>
    /\ output.cmd[2][3] = <<"-p", "53", ",", "53">>

\* ------------------------------------------------------------- claims: termination
\* C34: termination.  Every run that acquired the lock reaches, whatever
\* number of hosts phase 1 found and whichever detail scans, writes and
\* pushes fail, the end of run_full_scan (its summary returned, or an
\* exception raised) with the lock released, and the process exits.
C34_RunTerminates ==
    \A p \in Procs :
       /\ (proc[p].kind = "advanced" /\ proc[p].lock_fd = "locked")
             ~> (/\ proc[p].pc \in {"returned", "raised"}
                 /\ proc[p].lock_fd = "none")
       /\ (proc[p].kind = "advanced" /\ proc[p].lock_fd = "locked")
             ~> (proc[p].pc = "exited")

\* A run that held the lock was ended by nmap's exit code in phase 1 and
\* holds it no more.
C34_Witness ==
    \E p \in Procs :
       /\ proc[p].pc = "raised"
       /\ proc[p].outcome = "CalledProcessError"
       /\ Has(p, "lock_acquired")
       /\ proc[p].lock_fd = "none"

\* ------------------------------------------------------------- claims: request to run
\* No process holds the advanced lock.
LockFree == \A q \in Procs : proc[q].lock_fd # "locked"

\* C35: every POST /advanced-scan that was answered 202, with no run
\* holding the lock, leads to a run that acquires the lock and starts
\* phase 1, whether the body sets include_topology or leaves it to its
\* default.
C35_AcceptedRunStarts ==
    \A p \in Procs :
       (/\ answer.route = "/advanced-scan"
        /\ answer.status = 202
        /\ proc[p].kind = "advanced"
        /\ proc[p].pc = "spawned"
        /\ LockFree)
          ~> (Has(p, "lock_acquired") /\ Has(p, "phase1_started"))

\* The same for the requests that set include_topology to false.
C35_WithoutTopologyStarts ==
    \A p \in Procs :
       (/\ answer.route = "/advanced-scan"
        /\ answer.status = 202
        /\ proc[p].kind = "advanced"
        /\ proc[p].pc = "spawned"
        /\ ~proc[p].topology
        /\ LockFree)
          ~> (Has(p, "lock_acquired") /\ Has(p, "phase1_started"))

\* ------------------------------------------------------------- claims: lock file
\* C36: while a run holds the lock, the lock file holds that run's
\* "{pid}:{scan_id}"; an acquire attempt of another run that ends in busy
\* leaves the file as it was.
C36_LockFileNamesHolder ==
    \A p \in Procs :
       (proc[p].kind = "advanced" /\ proc[p].lock_fd = "locked") =>
          lockfile[AdvancedLockPath] = lock_text(p, scan_id_of(p))

\* ------------------------------------------------------------- claims: summary of a run
\* C37: in every summary a run produces, the hosts of phase2_detailed are
\* hosts that phase 1 discovered, and phase2.hosts_analyzed (the number of
\* entries of phase2_detailed) is at most phase1.hosts_with_open_ports (the
\* number of entries of phase 1's result).
C37_AnalyzedWereDiscovered ==
    \A p \in Procs :
       (proc[p].kind = "advanced" /\ Has(p, "summary")
          /\ proc[p].pc \in {"save", "history", "influx", "finish"}) =>
             /\ Elements(proc[p].phase2_results)
                   \subseteq Elements(proc[p].phase1_results)
             /\ Cardinality(Elements(proc[p].phase2_results))
                   <= Cardinality(Elements(proc[p].phase1_results))
             /\ Len(proc[p].phase2_results)
                   = Cardinality(Elements(proc[p].phase2_results))

\* A summary of two discovered hosts of which the second alone was analyzed.
C37_Witness ==
    \E p \in Procs :
       /\ proc[p].pc = "save"
       /\ Len(proc[p].phase1_results) = 2
       /\ proc[p].phase2_results = <<proc[p].phase1_results[2]>>

\* ------------------------------------------------------- a network's count
\* One ConfigManager under add_network, enable_network and
\* update_network_scan_info alone: no call removes a name or writes a
\* section whole.
CountNext ==
    \/ \E save_ok \in BOOLEAN : Construct(save_ok)
    \/ \E name \in RegNames, cidr \in CidrTexts, save_ok \in BOOLEAN :
          CallAddNetwork(name, cidr, save_ok)
    \/ \E name \in RegNames, enabled \in BOOLEAN, save_ok \in BOOLEAN :
          CallEnableNetwork(name, enabled, save_ok)
    \/ \E name \in RegNames, save_ok \in BOOLEAN :
          CallUpdateScanInfo(name, save_ok)

CountSpec == RegistryInit /\ [][CountNext]_vars

\* The call just made is add_network(name, cidr) with a cidr ip_network
\* takes, on a registry that has its sections: the call that writes an entry.
AddWrites(name) ==
    /\ Called("add_network")
    /\ ret'.name = name
    /\ ip_network(ret'.arg) # "ValueError"
    /\ has_sections(cm.config)

\* The call just made is update_network_scan_info(name).
ScanRecorded(name) == Called("update_network_scan_info") /\ ret'.name = name

\* C38 as stated: a name in the registry stays with a scan_count that goes
\* up by one at each update_network_scan_info for it and is left alone by
\* every other call, add_network for the same name included, so that the
\* count is the number of scans recorded since the name was first added.
C38_CountSinceFirstAdd ==
    [][\A name \in RegNames :
        (ret'.seq = ret.seq + 1 /\ has_network(cm.config, name)) =>
            /\ has_network(cm'.config, name)
            /\ cm'.config.networks[name].scan_count =
                   cm.config.networks[name].scan_count
                   + (IF ScanRecorded(name) THEN 1 ELSE 0)]_vars

\* C38: over add_network, enable_network and update_network_scan_info a name
\* never leaves the registry; add_network that writes the name's entry, new
\* or already there, sets scan_count to 0; update_network_scan_info for the
\* name adds one; every other call leaves the count as it was.  scan_count
\* is the number of scans recorded since the entry was last written by
\* add_network, and between two such writes it never decreases.
C38_CountSinceLastAdd ==
    [][\A name \in RegNames :
        (ret'.seq = ret.seq + 1) =>
            /\ AddWrites(name) =>
                  /\ has_network(cm'.config, name)
                  /\ cm'.config.networks[name].scan_count = 0
            /\ (has_network(cm.config, name) /\ ~AddWrites(name)) =>
                  /\ has_network(cm'.config, name)
                  /\ cm'.config.networks[name].scan_count =
                         cm.config.networks[name].scan_count
                         + (IF ScanRecorded(name) THEN 1 ELSE 0)
            /\ (~has_network(cm.config, name) /\ ~AddWrites(name)) =>
                  ~has_network(cm'.config, name)]_vars

\* C38 witness: two scans were recorded for a network of the registry, the
\* second by the call just made.
C38_Witness ==
    /\ ret.op = "update_network_scan_info"
    /\ ret.seq = MaxCalls
    /\ has_network(cm.config, ret.name)
    /\ cm.config.networks[ret.name].scan_count = 2

\* The call just made is one of add_network, remove_network and
\* enable_network, and it returned False.
MutationFailed ==
    /\ \E op \in {"add_network", "remove_network", "enable_network"} :
          Called(op)
    /\ ret'.value = FALSE

\* C39 as stated: add_network, remove_network or enable_network returning
\* False leaves the registry in memory as it was before the call, also when
\* False comes from save_config raising; and a registry in memory that was
\* the stored one before the failed call is the stored one after it.
C39_FailureLeavesMemory ==
    [][MutationFailed =>
        /\ cm'.config = cm.config
        /\ (store = json_file(cm.config)) =>
               (store' = json_file(cm'.config))]_vars

============================================================================
